---- MODULE Spec2Model ----
(***************************************************************************)
(* Verification model of the sentinel proxy: circuit breaker, data-masking *)
(* token store, v2 UDS agent client, graceful reload coordinator and the   *)
(* v2 agent connection pool.                                               *)
(* Each component has its own variables, actions and specification; the    *)
(* actions of one component leave the variables of the others unchanged.   *)
(***************************************************************************)
EXTENDS Integers, Sequences, FiniteSets, TLC

\* ------------------------------------------------------------------------
\* Bounds of the model
\* ------------------------------------------------------------------------
\* largest threshold / probe cap a CircuitBreakerConfig is drawn with
MaxThreshold == 2
\* cap on the breaker's u64 counters (guards only)
MaxCount == 4
\* last instant of the breaker's clock, in timeout units
MaxCbTime == 2

\* tokens generate_token can still hand out (UUIDs are modelled as fresh)
MaxTokens == 2
\* max_entries the store is created with
MaxEntries == 2
\* send_event calls made on the connection
MaxCalls == 2
\* largest max_drain_time a coordinator is created with, in ticks
MaxDrainTime == 2
\* last instant of the coordinator's clock, in ticks
MaxDrainClock == 6
\* cap on the active-request counter (guard only)
MaxActive == 2
\* latest instant of the token store's clock, in sweep intervals
MaxStoreTime == 3
\* largest protocol_version an agent names in its HandshakeResponse
MaxVersion == 3
\* cap on the frame counters of a client (guards only)
MaxFrames == 2
\* connections_per_agent of the pool's configuration
ConnectionsPerAgent == 2
\* max_concurrent_per_connection of the pool's configuration
MaxConcurrent == 1
\* max_reconnect_attempts of the pool's configuration
MaxReconnectAttempts == 1
\* drain_timeout of the pool's configuration, in 100 ms polls
DrainTimeout == 1
\* connections that can be created in a run
MaxConns == 3
\* selections made in a run (cap on round_robin_index)
MaxSelections == 3

VARIABLES
    cb_config,      \* CircuitBreaker.config
    cb,             \* CircuitBreaker's atomics, as a record
    cb_now,         \* base_instant.elapsed()
    cb_hist         \* history of the calls made on the breaker

cbVars == <<cb_config, cb, cb_now, cb_hist>>

VARIABLES
    by_correlation, \* correlation_id -> set of [token, original, created_at]
    by_token,       \* token -> [corr, original], or NoEntry
    entry_count,    \* the shared entry counter
    max_entries,    \* MemoryTokenStore.max_entries
    ttl,            \* MemoryTokenStore.ttl, in sweep intervals
    store_now,      \* Instant::now()
    next_token,     \* the next fresh token of generate_token
    st_pc,          \* per caller: where it is in its call
    st_loc,         \* per caller: the call's arguments and locals
    st_ret,         \* per caller: the last finished call and its result
    minted          \* history: token -> the correlation it was minted under

storeVars == <<by_correlation, by_token, entry_count, max_entries, ttl,
               store_now, next_token, st_pc, st_loc, st_ret, minted>>

VARIABLES
    connected,      \* AgentClientV2Uds.connected
    outbound_tx,    \* AgentClientV2Uds.outbound_tx: "Some" or "None"
    pending,        \* pending map: correlation id -> the call whose sender it holds
    pending_lock,   \* who holds the pending mutex, or "free"
    in_flight,      \* AgentClientV2Uds.in_flight
    outbound,       \* events written to the agent and not yet answered
    inbound,        \* response frames on their way to the reader task
    rd_pc,          \* reader task: where it is
    rd_frame,       \* reader task: the frame it has read
    call,           \* per send_event call: position, arguments, oneshot, result
    cn_pc,          \* cancel_request caller: where it is
    cn_corr         \* cancel_request caller: the correlation id it cancels

udsVars == <<connected, outbound_tx, pending, pending_lock, in_flight,
             outbound, inbound, rd_pc, rd_frame, call, cn_pc, cn_corr>>

VARIABLES
    active_requests,    \* GracefulReloadCoordinator.active_requests
    shutdown_requested, \* GracefulReloadCoordinator.shutdown_requested
    max_drain_time,     \* GracefulReloadCoordinator.max_drain_time, in ticks
    dr_now,             \* Instant::now(), in ticks of half a poll interval
    dr_pc,              \* wait_for_drain: where it is
    dr_start,           \* wait_for_drain: start
    dr_wake,            \* wait_for_drain: when its sleep ends
    dr_result,          \* wait_for_drain: the value returned
    dr_hist             \* history of the drain: its polls, the counter's zeros

drainVars == <<active_requests, shutdown_requested, max_drain_time, dr_now,
               dr_pc, dr_start, dr_wake, dr_result, dr_hist>>

VARIABLES
    cl_connected,        \* AgentClientV2Uds.connected
    cl_outbound_tx,      \* AgentClientV2Uds.outbound_tx: "Some" or "None"
    cl_capabilities,     \* AgentClientV2Uds.capabilities: <<>> or <<caps>>
    cl_protocol_version, \* AgentClientV2Uds.protocol_version
    cl_flow_state,       \* AgentClientV2Uds.flow_state
    cl_reader,           \* reader task: whether it runs, and its own flow_state
    cl_pending,          \* the correlation ids in the pending map
    cl_written,          \* frames enqueued on the outbound channel, per type
    cl_callback,         \* whether config_update_callback is set
    cl_hist              \* history: the handshake, connect's result, the
                         \* ConfigUpdateRequests received, the callback's calls

clVars == <<cl_connected, cl_outbound_tx, cl_capabilities, cl_protocol_version,
            cl_flow_state, cl_reader, cl_pending, cl_written, cl_callback,
            cl_hist>>

VARIABLES
    pl_config,  \* AgentPoolConfig: the load_balance_strategy
    pl_in_map,  \* whether AgentPool.agents holds the agent's entry
    pl_entry,   \* the AgentEntry: connections, round_robin_index, ...
    pl_conn,    \* connection id -> the PooledConnection
    pl_req,     \* per pool send: where it is, the connection selected
    pl_mt,      \* run_maintenance: where it is
    pl_sd,      \* shutdown: where it is, the connections it drains
    pl_hist     \* history: selections per connection, cancel_all calls

poolVars == <<pl_config, pl_in_map, pl_entry, pl_conn, pl_req, pl_mt, pl_sd,
              pl_hist>>

VARIABLES
    cd_pc,      \* the codec run: idle, encoded, decoded
    cd_msg,     \* the message given to the encoder
    cd_wire,    \* what the encoder produced
    cd_out      \* what the decoder returned

codecVars == <<cd_pc, cd_msg, cd_wire, cd_out>>

VARIABLES
    hd_inner,   \* HeadersCow.inner: the map from header name to its values
    hd_owned,   \* whether the Cow holds its own copy of the map
    hd_last     \* the last operation, with the map it was applied to

headerVars == <<hd_inner, hd_owned, hd_last>>

VARIABLES
    ac_doc,     \* the accessor's document: JsonAccessor.value or FormAccessor.fields
    ac_last     \* the last set call: its path, the document before, the result

accessorVars == <<ac_doc, ac_last>>

VARIABLES
    fp_key,     \* FpeCipher.key, as the seed of the round-key function
    fp_pc,      \* the cipher run: idle, done
    fp_in,      \* the plaintext given to encrypt
    fp_out      \* the string it returned

fpeVars == <<fp_key, fp_pc, fp_in, fp_out>>

VARIABLES
    en_cfg,     \* MaskingEngine.config: the field rule, the built-in patterns, the key
    en_pc,      \* the exchange: idle, masked, unmasked
    en_body,    \* the body in hand: path -> string value
    en_store,   \* the token store of the correlation: token -> original
    en_hist     \* the request body, what the field rule wrote, the last result

engineVars == <<en_cfg, en_pc, en_body, en_store, en_hist>>

VARIABLES
    xb_cfg,     \* the breaker's thresholds
    xb,         \* the breaker's atomics, as concurrent callers see them
    xb_th       \* each calling thread: its position in its call and its locals

cbxVars == <<xb_cfg, xb, xb_th>>


VARIABLES
    v1_pc,          \* the one send_event call (&mut self): idle, or waiting in receive_raw
    v1_event,       \* the event written by the call in progress, 0 when none
    v1_calls,       \* the number of send_event calls made so far
    v1_to_agent,    \* the stream, client to agent: events written and not yet read
    v1_to_client,   \* the stream, agent to client: replies written and not yet read
    v1_last         \* what the last send_event returned

v1Vars == <<v1_pc, v1_event, v1_calls, v1_to_agent, v1_to_client, v1_last>>

VARIABLES
    sv_pc,              \* the task spawned by process_stream: running, ended
    sv_handshake_done,  \* the task's local handshake_done
    sv_rx_open,         \* the receiver of the response channel is still held
    sv_count,           \* the number of messages taken from the stream so far
    sv_succeeded,       \* history: a handshake has succeeded on this stream
    sv_last             \* history: the last message and what was done with it

serverVars == <<sv_pc, sv_handshake_done, sv_rx_open, sv_count, sv_succeeded, sv_last>>

VARIABLES
    bp_buffers,     \* BufferPool.buffers of the thread, front first
    bp_stats,       \* BufferPool.allocated, reused, dropped
    bp_held,        \* the PooledBuffers alive on the thread, by holder
    bp_last         \* history: the last PooledBuffer::new and what it returned

bufferVars == <<bp_buffers, bp_stats, bp_held, bp_last>>

vars == <<cbVars, storeVars, udsVars, drainVars, clVars, poolVars,
         codecVars, headerVars, accessorVars, fpeVars, engineVars, cbxVars, v1Vars, serverVars, bufferVars>>

\* ------------------------------------------------------------------------
\* Circuit breaker (crates/common/src/circuit_breaker.rs)
\* Calls are modelled whole: one action per call of the public API.
\* ------------------------------------------------------------------------
STATE_CLOSED == 0
STATE_OPEN == 1
STATE_HALF_OPEN == 2

Min(a, b) == IF a < b THEN a ELSE b

\* u64::saturating_sub
SaturatingSub(a, b) == IF a >= b THEN a - b ELSE 0

\* CircuitBreaker::new: Closed, all counters 0, last change at instant 0
CircuitBreakerNew ==
    [state |-> STATE_CLOSED,
     consecutive_failures |-> 0,
     consecutive_successes |-> 0,
     last_state_change_ns |-> 0,
     half_open_requests |-> 0]

\* transition_to_open: no-op when already Open, else CAS to Open and stamp
transition_to_open(b, now) ==
    IF b.state = STATE_OPEN THEN b
    ELSE [b EXCEPT !.state = STATE_OPEN, !.last_state_change_ns = now]

\* transition_to_closed: no-op when already Closed, else CAS, stamp, and
\* clear the three counters
transition_to_closed(b, now) ==
    IF b.state = STATE_CLOSED THEN b
    ELSE [b EXCEPT !.state = STATE_CLOSED,
                   !.last_state_change_ns = now,
                   !.consecutive_failures = 0,
                   !.consecutive_successes = 0,
                   !.half_open_requests = 0]

\* transition_to_half_open: only from Open; stamps and clears the probe
\* counter (consecutive_successes is left as it is)
transition_to_half_open(b, now) ==
    IF b.state = STATE_HALF_OPEN THEN b
    ELSE IF b.state # STATE_OPEN THEN b
    ELSE [b EXCEPT !.state = STATE_HALF_OPEN,
                   !.last_state_change_ns = now,
                   !.half_open_requests = 0]

\* is_closed: the new breaker and the returned bool
is_closed(b, cfg, now) ==
    IF b.state = STATE_CLOSED THEN [cb |-> b, ret |-> TRUE]
    ELSE IF b.state = STATE_OPEN THEN
        IF SaturatingSub(now, b.last_state_change_ns) >= cfg.timeout_seconds
        THEN [cb |-> transition_to_half_open(b, now), ret |-> TRUE]
        ELSE [cb |-> b, ret |-> FALSE]
    ELSE \* STATE_HALF_OPEN: fetch_add(1), allowed iff the old value < max
        [cb |-> [b EXCEPT !.half_open_requests = @ + 1],
         ret |-> b.half_open_requests < cfg.half_open_max_requests]

\* record_success
record_success(b, cfg, now) ==
    LET b1 == [b EXCEPT !.consecutive_failures = 0,
                        !.consecutive_successes = @ + 1]
    IN  IF b1.state = STATE_HALF_OPEN
           /\ b1.consecutive_successes >= cfg.success_threshold
        THEN transition_to_closed(b1, now)
        ELSE b1

\* mutant of record_failure: threshold compared with > instead of >=
record_failure_gt(b, cfg, now) ==
    LET b1 == [b EXCEPT !.consecutive_successes = 0,
                        !.consecutive_failures = @ + 1]
    IN  IF b1.state = STATE_CLOSED
           /\ b1.consecutive_failures > cfg.failure_threshold
        THEN transition_to_open(b1, now)
        ELSE IF b1.state = STATE_HALF_OPEN THEN transition_to_open(b1, now)
        ELSE b1

\* record_failure
record_failure(b, cfg, now) ==
    LET b1 == [b EXCEPT !.consecutive_successes = 0,
                        !.consecutive_failures = @ + 1]
    IN  IF b1.state = STATE_CLOSED
           /\ b1.consecutive_failures >= cfg.failure_threshold
        THEN transition_to_open(b1, now)
        ELSE IF b1.state = STATE_HALF_OPEN THEN transition_to_open(b1, now)
        ELSE b1

\* reset
reset(b, now) ==
    [state |-> STATE_CLOSED,
     consecutive_failures |-> 0,
     consecutive_successes |-> 0,
     last_state_change_ns |-> now,
     half_open_requests |-> 0]

\* History kept beside the breaker (not program state):
\*   op, pre, ret  the last call, the state it started in, what it returned
\*   fail_run      record_failure calls since the last record_success/reset
\*   succ_run      record_success calls since HalfOpen was last entered with
\*                 no record_failure between them; -1 when there is no such run
\*   probes        is_closed calls that returned true since the open timeout
\*                 elapsed (the Open->HalfOpen call included) while the
\*                 breaker has not resolved to Closed or Open
\*   seen          which of the three FSM cases have happened
CbHistInit ==
    [op |-> "new", pre |-> STATE_CLOSED, ret |-> TRUE,
     fail_run |-> 0, succ_run |-> -1, probes |-> 0, seen |-> {}]

CbInit ==
    /\ cb_config \in [failure_threshold : 1..MaxThreshold,
                      success_threshold : 1..MaxThreshold,
                      timeout_seconds : 0..1,
                      half_open_max_requests : 1..MaxThreshold]
    /\ cb = CircuitBreakerNew
    /\ cb_now = 0
    /\ cb_hist = CbHistInit

\* a caller asks is_closed()
IsClosed ==
    /\ cb.half_open_requests < MaxCount
    /\ LET r == is_closed(cb, cb_config, cb_now)
           entered == cb.state = STATE_OPEN /\ r.cb.state = STATE_HALF_OPEN
       IN  /\ cb' = r.cb
           /\ cb_hist' = [cb_hist EXCEPT
                  !.op = "is_closed", !.pre = cb.state, !.ret = r.ret,
                  !.succ_run = IF entered THEN 0 ELSE @,
                  !.probes = IF entered THEN 1
                             ELSE IF cb.state = STATE_HALF_OPEN /\ r.ret
                                  THEN Min(@ + 1, MaxCount)
                                  ELSE @]
    /\ UNCHANGED <<cb_config, cb_now>>
    /\ UNCHANGED <<storeVars, udsVars, drainVars, clVars, poolVars, codecVars, headerVars, accessorVars, fpeVars, engineVars, cbxVars, v1Vars, serverVars, bufferVars>>

\* a caller reports a success
RecordSuccess ==
    /\ cb.consecutive_successes < MaxCount
    /\ LET b == record_success(cb, cb_config, cb_now)
       IN  /\ cb' = b
           /\ cb_hist' = [cb_hist EXCEPT
                  !.op = "record_success", !.pre = cb.state, !.ret = TRUE,
                  !.fail_run = 0,
                  !.succ_run = IF @ >= 0 THEN Min(@ + 1, MaxCount) ELSE @,
                  !.probes = IF b.state # cb.state THEN 0 ELSE @,
                  !.seen = IF cb.state = STATE_HALF_OPEN /\ b.state = STATE_CLOSED
                           THEN @ \cup {"halfopen_to_closed"} ELSE @]
    /\ UNCHANGED <<cb_config, cb_now>>
    /\ UNCHANGED <<storeVars, udsVars, drainVars, clVars, poolVars, codecVars, headerVars, accessorVars, fpeVars, engineVars, cbxVars, v1Vars, serverVars, bufferVars>>

\* a caller reports a failure
RecordFailure ==
    /\ cb.consecutive_failures < MaxCount
    /\ LET b == record_failure(cb, cb_config, cb_now)
       IN  /\ cb' = b
           /\ cb_hist' = [cb_hist EXCEPT
                  !.op = "record_failure", !.pre = cb.state, !.ret = TRUE,
                  !.fail_run = Min(@ + 1, MaxCount),
                  !.succ_run = -1,
                  !.probes = IF b.state # cb.state THEN 0 ELSE @,
                  !.seen = IF cb.state = STATE_CLOSED /\ b.state = STATE_OPEN
                           THEN @ \cup {"closed_to_open"}
                           ELSE IF cb.state = STATE_HALF_OPEN /\ b.state = STATE_OPEN
                                THEN @ \cup {"halfopen_to_open"} ELSE @]
    /\ UNCHANGED <<cb_config, cb_now>>
    /\ UNCHANGED <<storeVars, udsVars, drainVars, clVars, poolVars, codecVars, headerVars, accessorVars, fpeVars, engineVars, cbxVars, v1Vars, serverVars, bufferVars>>

\* an operator resets the breaker
Reset ==
    /\ cb' = reset(cb, cb_now)
    /\ cb_hist' = [cb_hist EXCEPT
           !.op = "reset", !.pre = cb.state, !.ret = TRUE,
           !.fail_run = 0, !.succ_run = -1, !.probes = 0]
    /\ UNCHANGED <<cb_config, cb_now>>
    /\ UNCHANGED <<storeVars, udsVars, drainVars, clVars, poolVars, codecVars, headerVars, accessorVars, fpeVars, engineVars, cbxVars, v1Vars, serverVars, bufferVars>>

\* the clock advances by one timeout unit
CbTick ==
    /\ cb_now < MaxCbTime
    /\ cb_now' = cb_now + 1
    /\ UNCHANGED <<cb_config, cb, cb_hist>>
    /\ UNCHANGED <<storeVars, udsVars, drainVars, clVars, poolVars, codecVars, headerVars, accessorVars, fpeVars, engineVars, cbxVars, v1Vars, serverVars, bufferVars>>

CbNext ==
    \/ IsClosed
    \/ RecordSuccess
    \/ RecordFailure
    \/ Reset
    \/ CbTick

\* C1: failure_threshold record_failure() calls in a row (no record_success()
\* or reset() between them) leave the breaker Open; a record_failure() made
\* in HalfOpen leaves it Open; success_threshold record_success() calls made
\* since HalfOpen was entered, with no record_failure() between them, leave
\* it Closed.
C1_BreakerFsm ==
    /\ (cb_hist.op = "record_failure"
        /\ cb_hist.fail_run >= cb_config.failure_threshold)
           => cb.state = STATE_OPEN
    /\ (cb_hist.op = "record_failure" /\ cb_hist.pre = STATE_HALF_OPEN)
           => cb.state = STATE_OPEN
    /\ (cb_hist.op = "record_success"
        /\ cb_hist.succ_run >= cb_config.success_threshold)
           => cb.state = STATE_CLOSED

\* the three cases of C1 have all happened, with thresholds above 1, and the
\* last call is the record_success() that closed the breaker
C1_Witness ==
    /\ cb_config.failure_threshold = MaxThreshold
    /\ cb_config.success_threshold = MaxThreshold
    /\ cb_hist.seen = {"closed_to_open", "halfopen_to_open", "halfopen_to_closed"}
    /\ cb_hist.op = "record_success"
    /\ cb_hist.pre = STATE_HALF_OPEN
    /\ cb_hist.succ_run = cb_config.success_threshold
    /\ cb.state = STATE_CLOSED

\* C2: between the open timeout elapsing and the breaker resolving to Closed
\* or Open, at most half_open_max_requests is_closed() calls return true,
\* the call that moves Open to HalfOpen included.
C2_ProbeCap ==
    cb.state = STATE_HALF_OPEN
        => cb_hist.probes <= cb_config.half_open_max_requests

\* C34: the breaker moves from HalfOpen to Closed only after at least
\* success_threshold record_success() calls made since it last entered
\* HalfOpen; successes recorded while it was Closed or Open do not count.
C34_ClosesAfterThreshold ==
    (/\ cb_hist.op = "record_success"
     /\ cb_hist.pre = STATE_HALF_OPEN
     /\ cb.state = STATE_CLOSED)
        => cb_hist.succ_run >= cb_config.success_threshold


\* ------------------------------------------------------------------------
\* In-memory token store (agents/data-masking/src/store/memory.rs)
\* Callers run concurrently; every step below is one access to a DashMap
\* (atomic under its shard lock) or to the entry_count lock.
\* ------------------------------------------------------------------------
Corr == {"A", "B"}
Originals == {"v1", "v2"}
StoreProcs == {"p1", "p2"}
Tokens == 1..MaxTokens
NoToken == 0
None == "None"
CapacityExceeded == "CapacityExceeded"

NoLoc == [c |-> "A", v |-> "v1", token |-> NoToken, todo |-> {}, count |-> 0,
          taken |-> {}]
NoRet == [op |-> "none", c |-> "A", v |-> "v1", token |-> NoToken,
          result |-> None, count |-> 0]
NoEntry == [corr |-> None, original |-> None]

\* the maps of the background cleanup task: spawn_cleanup_task clones both
\* DashMaps when the store is constructed (DashMap::clone copies the shards),
\* so the task sweeps these copies, which hold nothing
cleanup_task_by_correlation == [c \in Corr |-> {}]

\* the scan of tokenize: the token already stored for (c, original), if any
tokenize_scan(bc, c, original) ==
    LET hits == {e \in bc[c] : e.original = original}
    IN  IF hits = {} THEN NoToken ELSE (CHOOSE e \in hits : TRUE).token

\* mutant of detokenize_fast_path: the owner of the token is not compared
detokenize_fast_path_any(bt, c, token) ==
    IF bt[token] # NoEntry THEN bt[token].original ELSE None

\* detokenize, fast path: by_token hit whose correlation is the caller's
detokenize_fast_path(bt, c, token) ==
    IF bt[token] # NoEntry /\ bt[token].corr = c THEN bt[token].original ELSE None

\* detokenize, fall back: the caller's own per-correlation map
detokenize_fallback(bc, c, token) ==
    LET hits == {e \in bc[c] : e.token = token}
    IN  IF hits = {} THEN None ELSE (CHOOSE e \in hits : TRUE).original

StoreInit ==
    /\ by_correlation = [c \in Corr |-> {}]
    /\ by_token = [t \in Tokens |-> NoEntry]
    /\ entry_count = 0
    /\ max_entries = MaxEntries
    /\ ttl = 1
    /\ store_now = 0
    /\ next_token = 1
    /\ st_pc = [p \in StoreProcs |-> "idle"]
    /\ st_loc = [p \in StoreProcs |-> NoLoc]
    /\ st_ret = [p \in StoreProcs |-> NoRet]
    /\ minted = [t \in Tokens |-> None]

StoreReturn(p, op, result) ==
    /\ st_pc' = [st_pc EXCEPT ![p] = "returned"]
    /\ st_ret' = [st_ret EXCEPT ![p] =
           [op |-> op, c |-> st_loc'[p].c, v |-> st_loc'[p].v,
            token |-> st_loc'[p].token, result |-> result,
            count |-> st_loc'[p].count]]

\* tokenize(c, v), lines 106-112: scan under the read guard of c's entry
TokenizeScan(p) ==
    /\ st_pc[p] = "idle"
    /\ \E c \in Corr, v \in Originals :
         LET found == tokenize_scan(by_correlation, c, v)
         IN  /\ st_loc' = [st_loc EXCEPT ![p] =
                    [NoLoc EXCEPT !.c = c, !.v = v, !.token = found]]
             /\ IF found # NoToken
                THEN StoreReturn(p, "tokenize", "Ok")
                ELSE /\ st_pc' = [st_pc EXCEPT ![p] = "tok_capacity"]
                     /\ UNCHANGED st_ret
    /\ UNCHANGED <<by_correlation, by_token, entry_count, max_entries, ttl,
                   store_now, next_token, minted>>
    /\ UNCHANGED <<cbVars, udsVars, drainVars, clVars, poolVars, codecVars, headerVars, accessorVars, fpeVars, engineVars, cbxVars, v1Vars, serverVars, bufferVars>>

\* tokenize, lines 115-123: capacity check, then generate_token
TokenizeCapacity(p) ==
    /\ st_pc[p] = "tok_capacity"
    /\ IF entry_count >= max_entries
       THEN /\ st_loc' = st_loc
            /\ StoreReturn(p, "tokenize", CapacityExceeded)
            /\ UNCHANGED <<next_token, minted>>
       ELSE /\ next_token <= MaxTokens
            /\ st_loc' = [st_loc EXCEPT ![p].token = next_token]
            /\ next_token' = next_token + 1
            /\ minted' = [minted EXCEPT ![next_token] = st_loc[p].c]
            /\ st_pc' = [st_pc EXCEPT ![p] = "tok_insert"]
            /\ UNCHANGED st_ret
    /\ UNCHANGED <<by_correlation, by_token, entry_count, max_entries, ttl,
                   store_now>>
    /\ UNCHANGED <<cbVars, udsVars, drainVars, clVars, poolVars, codecVars, headerVars, accessorVars, fpeVars, engineVars, cbxVars, v1Vars, serverVars, bufferVars>>

\* tokenize, lines 126-134: by_correlation.entry(c).or_default().insert
TokenizeInsert(p) ==
    /\ st_pc[p] = "tok_insert"
    /\ by_correlation' = [by_correlation EXCEPT ![st_loc[p].c] =
           @ \cup {[token |-> st_loc[p].token, original |-> st_loc[p].v,
                    created_at |-> store_now]}]
    /\ st_pc' = [st_pc EXCEPT ![p] = "tok_index"]
    /\ UNCHANGED <<by_token, entry_count, max_entries, ttl, store_now,
                   next_token, st_loc, st_ret, minted>>
    /\ UNCHANGED <<cbVars, udsVars, drainVars, clVars, poolVars, codecVars, headerVars, accessorVars, fpeVars, engineVars, cbxVars, v1Vars, serverVars, bufferVars>>

\* tokenize, lines 136-139: by_token.insert
TokenizeIndex(p) ==
    /\ st_pc[p] = "tok_index"
    /\ by_token' = [by_token EXCEPT ![st_loc[p].token] =
           [corr |-> st_loc[p].c, original |-> st_loc[p].v]]
    /\ st_pc' = [st_pc EXCEPT ![p] = "tok_count"]
    /\ UNCHANGED <<by_correlation, entry_count, max_entries, ttl, store_now,
                   next_token, st_loc, st_ret, minted>>
    /\ UNCHANGED <<cbVars, udsVars, drainVars, clVars, poolVars, codecVars, headerVars, accessorVars, fpeVars, engineVars, cbxVars, v1Vars, serverVars, bufferVars>>

\* tokenize, lines 142-147: count += 1, return the token
TokenizeCount(p) ==
    /\ st_pc[p] = "tok_count"
    /\ entry_count' = entry_count + 1
    /\ st_loc' = st_loc
    /\ StoreReturn(p, "tokenize", "Ok")
    /\ UNCHANGED <<by_correlation, by_token, max_entries, ttl, store_now,
                   next_token, minted>>
    /\ UNCHANGED <<cbVars, udsVars, drainVars, clVars, poolVars, codecVars, headerVars, accessorVars, fpeVars, engineVars, cbxVars, v1Vars, serverVars, bufferVars>>

\* detokenize(c, t), lines 156-160: the fast path through by_token
DetokenizeFast(p) ==
    /\ st_pc[p] = "idle"
    /\ \E c \in Corr, t \in 1..(next_token - 1) :
         LET r == detokenize_fast_path(by_token, c, t)
         IN  /\ st_loc' = [st_loc EXCEPT ![p] =
                    [NoLoc EXCEPT !.c = c, !.token = t]]
             /\ IF r # None
                THEN StoreReturn(p, "detokenize", r)
                ELSE /\ st_pc' = [st_pc EXCEPT ![p] = "detok_fallback"]
                     /\ UNCHANGED st_ret
    /\ UNCHANGED <<by_correlation, by_token, entry_count, max_entries, ttl,
                   store_now, next_token, minted>>
    /\ UNCHANGED <<cbVars, udsVars, drainVars, clVars, poolVars, codecVars, headerVars, accessorVars, fpeVars, engineVars, cbxVars, v1Vars, serverVars, bufferVars>>

\* detokenize, lines 163-169: the fall back through by_correlation
DetokenizeFallback(p) ==
    /\ st_pc[p] = "detok_fallback"
    /\ st_loc' = st_loc
    /\ StoreReturn(p, "detokenize",
                   detokenize_fallback(by_correlation, st_loc[p].c, st_loc[p].token))
    /\ UNCHANGED <<by_correlation, by_token, entry_count, max_entries, ttl,
                   store_now, next_token, minted>>
    /\ UNCHANGED <<cbVars, udsVars, drainVars, clVars, poolVars, codecVars, headerVars, accessorVars, fpeVars, engineVars, cbxVars, v1Vars, serverVars, bufferVars>>

\* cleanup(c), lines 173-174: by_correlation.remove(c)
CleanupRemove(p) ==
    /\ st_pc[p] = "idle"
    /\ \E c \in Corr :
         LET inner == by_correlation[c]
         IN  /\ st_loc' = [st_loc EXCEPT ![p] =
                    [NoLoc EXCEPT !.c = c,
                                  !.todo = {e.token : e \in inner},
                                  !.taken = {e.token : e \in inner},
                                  !.count = Cardinality(inner)]]
             /\ by_correlation' = [by_correlation EXCEPT ![c] = {}]
             /\ IF inner = {}
                THEN StoreReturn(p, "cleanup", "Ok")
                ELSE /\ st_pc' = [st_pc EXCEPT ![p] = "cl_index"]
                     /\ UNCHANGED st_ret
    /\ UNCHANGED <<by_token, entry_count, max_entries, ttl, store_now,
                   next_token, minted>>
    /\ UNCHANGED <<cbVars, udsVars, drainVars, clVars, poolVars, codecVars, headerVars, accessorVars, fpeVars, engineVars, cbxVars, v1Vars, serverVars, bufferVars>>

\* cleanup, lines 175-177: one by_token.remove of the loop
CleanupIndex(p) ==
    /\ st_pc[p] = "cl_index"
    /\ st_loc[p].todo # {}
    /\ \E t \in st_loc[p].todo :
         /\ by_token' = [by_token EXCEPT ![t] = NoEntry]
         /\ st_loc' = [st_loc EXCEPT ![p].todo = @ \ {t}]
    /\ UNCHANGED <<by_correlation, entry_count, max_entries, ttl, store_now,
                   next_token, st_pc, st_ret, minted>>
    /\ UNCHANGED <<cbVars, udsVars, drainVars, clVars, poolVars, codecVars, headerVars, accessorVars, fpeVars, engineVars, cbxVars, v1Vars, serverVars, bufferVars>>

\* cleanup, lines 179-182: count = count.saturating_sub(n), return n
CleanupCount(p) ==
    /\ st_pc[p] = "cl_index"
    /\ st_loc[p].todo = {}
    /\ entry_count' = SaturatingSub(entry_count, st_loc[p].count)
    /\ st_loc' = st_loc
    /\ StoreReturn(p, "cleanup", "Ok")
    /\ UNCHANGED <<by_correlation, by_token, max_entries, ttl, store_now,
                   next_token, minted>>
    /\ UNCHANGED <<cbVars, udsVars, drainVars, clVars, poolVars, codecVars, headerVars, accessorVars, fpeVars, engineVars, cbxVars, v1Vars, serverVars, bufferVars>>

\* the caller has taken the result of its call and may make another
StoreIdle(p) ==
    /\ st_pc[p] = "returned"
    /\ st_pc' = [st_pc EXCEPT ![p] = "idle"]
    /\ st_loc' = [st_loc EXCEPT ![p] = NoLoc]
    /\ st_ret' = [st_ret EXCEPT ![p] = NoRet]
    /\ UNCHANGED <<by_correlation, by_token, entry_count, max_entries, ttl,
                   store_now, next_token, minted>>
    /\ UNCHANGED <<cbVars, udsVars, drainVars, clVars, poolVars, codecVars, headerVars, accessorVars, fpeVars, engineVars, cbxVars, v1Vars, serverVars, bufferVars>>

\* one round of the cleanup task, lines 60-82, over its own copies of the maps
SweeperTick ==
    LET expired == {e \in UNION {cleanup_task_by_correlation[c] : c \in Corr} :
                        store_now - e.created_at > ttl}
        removed == Cardinality(expired)
    IN  /\ entry_count' = IF removed > 0
                          THEN SaturatingSub(entry_count, removed)
                          ELSE entry_count
        /\ UNCHANGED <<by_correlation, by_token, max_entries, ttl, store_now,
                       next_token, st_pc, st_loc, st_ret, minted>>
        /\ UNCHANGED <<cbVars, udsVars, drainVars, clVars, poolVars, codecVars, headerVars, accessorVars, fpeVars, engineVars, cbxVars, v1Vars, serverVars, bufferVars>>

\* one sweep interval (60 s) passes and interval.tick() wakes the cleanup
\* task, which runs its round, lines 60-82, at the new instant
StoreTick ==
    /\ store_now < MaxStoreTime
    /\ store_now' = store_now + 1
    /\ LET expired ==
               {e \in UNION {cleanup_task_by_correlation[c] : c \in Corr} :
                    store_now' - e.created_at > ttl}
           removed == Cardinality(expired)
       IN  entry_count' = IF removed > 0
                          THEN SaturatingSub(entry_count, removed)
                          ELSE entry_count
    /\ UNCHANGED <<by_correlation, by_token, max_entries, ttl,
                   next_token, st_pc, st_loc, st_ret, minted>>
    /\ UNCHANGED <<cbVars, udsVars, drainVars, clVars, poolVars, codecVars, headerVars, accessorVars, fpeVars, engineVars, cbxVars, v1Vars, serverVars, bufferVars>>

StoreNext ==
    \/ \E p \in StoreProcs : TokenizeScan(p)
    \/ \E p \in StoreProcs : TokenizeCapacity(p)
    \/ \E p \in StoreProcs : TokenizeInsert(p)
    \/ \E p \in StoreProcs : TokenizeIndex(p)
    \/ \E p \in StoreProcs : TokenizeCount(p)
    \/ \E p \in StoreProcs : DetokenizeFast(p)
    \/ \E p \in StoreProcs : DetokenizeFallback(p)
    \/ \E p \in StoreProcs : CleanupRemove(p)
    \/ \E p \in StoreProcs : CleanupIndex(p)
    \/ \E p \in StoreProcs : CleanupCount(p)
    \/ \E p \in StoreProcs : StoreIdle(p)
    \/ SweeperTick


\* C3: the store never holds two tokens for the same (correlation,
\* original), and two tokenize(c, v) calls whose tokens are both still
\* stored returned the same token, also when the calls run concurrently.
C3_AtomicMint ==
    /\ \A c \in Corr : \A e1, e2 \in by_correlation[c] :
           e1.original = e2.original => e1.token = e2.token
    /\ \A p, q \in StoreProcs :
           (/\ st_ret[p].op = "tokenize" /\ st_ret[p].result = "Ok"
            /\ st_ret[q].op = "tokenize" /\ st_ret[q].result = "Ok"
            /\ st_ret[p].c = st_ret[q].c /\ st_ret[p].v = st_ret[q].v
            /\ \E e \in by_correlation[st_ret[p].c] : e.token = st_ret[p].token
            /\ \E e \in by_correlation[st_ret[q].c] : e.token = st_ret[q].token)
           => st_ret[p].token = st_ret[q].token

\* C4: a detokenize(B, t) of a token t minted under another correlation A
\* returns None, in every interleaving of tokenize, detokenize, cleanup and
\* sweeper steps.
C4_CorrelationIsolation ==
    \A p \in StoreProcs :
        (st_ret[p].op = "detokenize" /\ minted[st_ret[p].token] # st_ret[p].c)
            => st_ret[p].result = None

\* a detokenize under B of a token that is stored under A, while B holds a
\* token of its own, has returned None
C4_Witness ==
    \E p \in StoreProcs :
        /\ st_ret[p].op = "detokenize"
        /\ st_ret[p].c = "B"
        /\ minted[st_ret[p].token] = "A"
        /\ by_token[st_ret[p].token] # NoEntry
        /\ by_token[st_ret[p].token].corr = "A"
        /\ by_correlation["B"] # {}
        /\ st_ret[p].result = None

\* the tokenize calls in progress: begun and not yet returned
tokenize_in_progress ==
    {p \in StoreProcs :
        st_pc[p] \in {"tok_capacity", "tok_insert", "tok_index", "tok_count"}}

\* the sum of the sizes of the per-correlation maps
RECURSIVE by_correlation_sizes(_, _)
by_correlation_sizes(bc, cs) ==
    IF cs = {} THEN 0
    ELSE LET c == CHOOSE x \in cs : TRUE
         IN  Cardinality(bc[c]) + by_correlation_sizes(bc, cs \ {c})

\* C20: at every moment the global entry count is at most the sum of the
\* sizes of the per-correlation maps plus the number of tokenize calls in
\* progress.
C20_CountLowerBound ==
    entry_count <= by_correlation_sizes(by_correlation, Corr)
                       + Cardinality(tokenize_in_progress)

\* the entries stored, over all correlations
stored_entries == UNION {by_correlation[c] : c \in Corr}

\* C21: the store never holds more than max_entries entries, also when
\* several tokenize calls run concurrently.
C21_CapacityRespected ==
    Cardinality(stored_entries) <= max_entries

\* C22: an entry inserted at t0 is in neither index at any time later than
\* t0 + ttl + one sweep interval, whatever calls were interleaved.
C22_TtlEviction ==
    \A e \in stored_entries :
        /\ store_now <= e.created_at + ttl + 1
        /\ by_token[e.token] # NoEntry => store_now <= e.created_at + ttl + 1

\* C23: when cleanup(c) returns n, the entries it took from c's map are in
\* neither index, and n is their number.
C23_CleanupRemovesAll ==
    [][\A p \in StoreProcs :
         (st_pc[p] = "cl_index" /\ st_pc'[p] = "returned")
            => /\ st_ret'[p].count = Cardinality(st_loc[p].taken)
               /\ \A t \in st_loc[p].taken :
                     /\ by_token'[t] = NoEntry
                     /\ \A e \in by_correlation'[st_loc[p].c] : e.token # t]_vars

\* C35: index consistency: whenever no tokenize or cleanup call is between
\* its steps, the token index maps t to (c, v) exactly when c's map holds an
\* entry for t with original v; no interleaving leaves a token in only one
\* of the two indices.
C35_IndexConsistent ==
    (\A p \in StoreProcs : st_pc[p] \in {"idle", "returned", "detok_fallback"})
        => \A t \in Tokens, c \in Corr, v \in Originals :
               (by_token[t] = [corr |-> c, original |-> v])
                   <=> (\E e \in by_correlation[c] :
                           e.token = t /\ e.original = v)

\* ------------------------------------------------------------------------
\* v2 UDS agent client (crates/agent-protocol/src/v2/uds.rs)
\* send_event callers, the reader task, a cancel_request caller and the
\* agent run concurrently. The pending mutex is taken and released in
\* separate steps, so that try_lock can find it held. Deadlines are not
\* timed: a waiting call may time out at any moment at which its oneshot
\* holds nothing.
\* ------------------------------------------------------------------------
Calls == 1..MaxCalls
NoCall == 0
CorrIds == {"c1", "c2"}
\* a response whose audit.custom carries no "correlation_id"
Absent == "<absent>"
NoFrame == [correlation_id |-> Absent, ev |-> NoCall]

NewCall ==
    [pc |-> "new", corr |-> "c1", chan |-> "empty", val |-> NoFrame,
     result |-> "none",
     \* history, not program state: the reader ended while the call waited
     eof_waiting |-> FALSE]

\* the key the reader looks up: the response's correlation id, or ""
frame_key(f) ==
    IF f.correlation_id = Absent THEN "" ELSE f.correlation_id

\* HashMap::get / remove on the pending map
pending_get(pend, k) == IF k \in DOMAIN pend THEN pend[k] ELSE NoCall
pending_remove(pend, k) ==
    IF k \in DOMAIN pend THEN [pend EXCEPT ![k] = NoCall] ELSE pend

\* mutant of reader_lookup: the response goes to some waiting entry,
\* whatever correlation id it carries
reader_lookup_any(pend, f) ==
    IF \E k \in DOMAIN pend : pend[k] # NoCall
    THEN CHOOSE k \in DOMAIN pend : pend[k] # NoCall
    ELSE frame_key(f)

\* the pending key the reader removes for a response frame (line 409)
reader_lookup(pend, f) == frame_key(f)

\* a oneshot sender dropped without sending: its receiver, if it still
\* waits on an empty channel, sees Err
drop_sender(cl, k) ==
    IF k = NoCall THEN cl
    ELSE [cl EXCEPT ![k].chan = IF @ = "empty" THEN "closed" ELSE @]

UdsInit ==
    /\ connected = FALSE
    /\ outbound_tx = "None"
    /\ pending = [k \in CorrIds |-> NoCall]
    /\ pending_lock = "free"
    /\ in_flight = 0
    /\ outbound = {}
    /\ inbound = {}
    /\ rd_pc = "none"
    /\ rd_frame = NoFrame
    /\ call = [i \in Calls |-> NewCall]
    /\ cn_pc = "idle"
    /\ cn_corr = "c1"

\* connect(), lines 302-482, with a successful handshake: the outbound
\* channel is stored, the writer and reader tasks are spawned
Connect ==
    /\ rd_pc = "none"
    /\ connected' = TRUE
    /\ outbound_tx' = "Some"
    /\ rd_pc' = "read"
    /\ UNCHANGED <<pending, pending_lock, in_flight, outbound, inbound,
                   rd_frame, call, cn_pc, cn_corr>>
    /\ UNCHANGED <<cbVars, storeVars, drainVars, clVars, poolVars, codecVars, headerVars, accessorVars, fpeVars, engineVars, cbxVars, v1Vars, serverVars, bufferVars>>

\* close(), lines 651-655
Close ==
    /\ connected
    /\ connected' = FALSE
    /\ outbound_tx' = "None"
    /\ UNCHANGED <<pending, pending_lock, in_flight, outbound, inbound,
                   rd_pc, rd_frame, call, cn_pc, cn_corr>>
    /\ UNCHANGED <<cbVars, storeVars, drainVars, clVars, poolVars, codecVars, headerVars, accessorVars, fpeVars, engineVars, cbxVars, v1Vars, serverVars, bufferVars>>

\* send_event, lines 538-541: the oneshot is created, the pending mutex taken
\* (calls are interchangeable, so they are begun in the order of their numbers)
SendLock(i) ==
    /\ call[i].pc = "new"
    /\ \A j \in Calls : j < i => call[j].pc # "new"
    /\ pending_lock = "free"
    /\ \E c \in CorrIds :
         call' = [call EXCEPT ![i].pc = "insert", ![i].corr = c]
    /\ pending_lock' = "call"
    /\ UNCHANGED <<connected, outbound_tx, pending, in_flight, outbound,
                   inbound, rd_pc, rd_frame, cn_pc, cn_corr>>
    /\ UNCHANGED <<cbVars, storeVars, drainVars, clVars, poolVars, codecVars, headerVars, accessorVars, fpeVars, engineVars, cbxVars, v1Vars, serverVars, bufferVars>>

\* send_event, line 542: insert(correlation_id, tx); a sender already stored
\* under the key is dropped; the guard is released
SendInsert(i) ==
    /\ call[i].pc = "insert"
    /\ pending' = [pending EXCEPT ![call[i].corr] = i]
    /\ call' = [drop_sender(call, pending[call[i].corr]) EXCEPT ![i].pc = "send"]
    /\ pending_lock' = "free"
    /\ UNCHANGED <<connected, outbound_tx, in_flight, outbound, inbound,
                   rd_pc, rd_frame, cn_pc, cn_corr>>
    /\ UNCHANGED <<cbVars, storeVars, drainVars, clVars, poolVars, codecVars, headerVars, accessorVars, fpeVars, engineVars, cbxVars, v1Vars, serverVars, bufferVars>>

\* send_event, lines 559-570: the frame goes to the outbound channel, or the
\* call ends with ConnectionClosed when there is none
SendFrame(i) ==
    /\ call[i].pc = "send"
    /\ IF outbound_tx = "Some"
       THEN /\ outbound' = outbound \cup {[ev |-> i, corr |-> call[i].corr]}
            /\ in_flight' = in_flight + 1
            /\ call' = [call EXCEPT ![i].pc = "wait"]
       ELSE /\ call' = [call EXCEPT ![i].pc = "done", ![i].chan = "dropped", ![i].eof_waiting = FALSE,
                                    ![i].result = "ConnectionClosed"]
            /\ UNCHANGED <<outbound, in_flight>>
    /\ UNCHANGED <<connected, outbound_tx, pending, pending_lock, inbound,
                   rd_pc, rd_frame, cn_pc, cn_corr>>
    /\ UNCHANGED <<cbVars, storeVars, drainVars, clVars, poolVars, codecVars, headerVars, accessorVars, fpeVars, engineVars, cbxVars, v1Vars, serverVars, bufferVars>>

\* send_event, lines 573-583: the oneshot yields the response
SendReceive(i) ==
    /\ call[i].pc = "wait"
    /\ call[i].chan = "value"
    /\ call' = [call EXCEPT ![i].pc = "done", ![i].chan = "dropped", ![i].eof_waiting = FALSE,
                            ![i].result = "response"]
    /\ in_flight' = in_flight - 1
    /\ UNCHANGED <<connected, outbound_tx, pending, pending_lock, outbound,
                   inbound, rd_pc, rd_frame, cn_pc, cn_corr>>
    /\ UNCHANGED <<cbVars, storeVars, drainVars, clVars, poolVars, codecVars, headerVars, accessorVars, fpeVars, engineVars, cbxVars, v1Vars, serverVars, bufferVars>>

\* send_event, line 579: the sender was dropped
SendClosed(i) ==
    /\ call[i].pc = "wait"
    /\ call[i].chan = "closed"
    /\ call' = [call EXCEPT ![i].pc = "done", ![i].chan = "dropped", ![i].eof_waiting = FALSE,
                            ![i].result = "ConnectionClosed"]
    /\ UNCHANGED <<connected, outbound_tx, pending, pending_lock, in_flight,
                   outbound, inbound, rd_pc, rd_frame, cn_pc, cn_corr>>
    /\ UNCHANGED <<cbVars, storeVars, drainVars, clVars, poolVars, codecVars, headerVars, accessorVars, fpeVars, engineVars, cbxVars, v1Vars, serverVars, bufferVars>>

\* send_event, lines 573-578: the deadline passes; the entry under the
\* call's correlation id is removed if try_lock gets the mutex
SendTimeout(i) ==
    /\ call[i].pc = "wait"
    /\ call[i].chan = "empty"
    /\ LET got == pending_lock = "free"
           pend == IF got THEN pending_remove(pending, call[i].corr) ELSE pending
           dropped == IF got THEN pending_get(pending, call[i].corr) ELSE NoCall
       IN  /\ pending' = pend
           /\ call' = [drop_sender(call, dropped) EXCEPT
                  ![i].pc = "done", ![i].chan = "dropped", ![i].eof_waiting = FALSE,
                  ![i].result = "Timeout"]
    /\ UNCHANGED <<connected, outbound_tx, pending_lock, in_flight, outbound,
                   inbound, rd_pc, rd_frame, cn_pc, cn_corr>>
    /\ UNCHANGED <<cbVars, storeVars, drainVars, clVars, poolVars, codecVars, headerVars, accessorVars, fpeVars, engineVars, cbxVars, v1Vars, serverVars, bufferVars>>

\* the agent answers an event it has received, with or without the
\* correlation id in audit.custom
AgentRespond ==
    /\ rd_pc # "ended"
    /\ \E e \in outbound :
         /\ outbound' = outbound \ {e}
         /\ \E cid \in {e.corr, Absent} :
              inbound' = inbound \cup {[correlation_id |-> cid, ev |-> e.ev]}
    /\ UNCHANGED <<connected, outbound_tx, pending, pending_lock, in_flight,
                   rd_pc, rd_frame, call, cn_pc, cn_corr>>
    /\ UNCHANGED <<cbVars, storeVars, drainVars, clVars, poolVars, codecVars, headerVars, accessorVars, fpeVars, engineVars, cbxVars, v1Vars, serverVars, bufferVars>>

\* reader task, lines 401-409: an AgentResponse frame is read and parsed,
\* the pending mutex taken
ReaderRead ==
    /\ rd_pc = "read"
    /\ pending_lock = "free"
    /\ \E f \in inbound :
         /\ rd_frame' = f
         /\ inbound' = inbound \ {f}
    /\ rd_pc' = "deliver"
    /\ pending_lock' = "reader"
    /\ UNCHANGED <<connected, outbound_tx, pending, in_flight, outbound,
                   call, cn_pc, cn_corr>>
    /\ UNCHANGED <<cbVars, storeVars, drainVars, clVars, poolVars, codecVars, headerVars, accessorVars, fpeVars, engineVars, cbxVars, v1Vars, serverVars, bufferVars>>

\* reader task, lines 409-411: remove the entry, send the response on its
\* oneshot (ignored when the receiver is gone), release the guard
ReaderDeliver ==
    /\ rd_pc = "deliver"
    /\ LET k == reader_lookup(pending, rd_frame)
           to == pending_get(pending, k)
       IN  /\ pending' = pending_remove(pending, k)
           /\ call' = IF to # NoCall /\ call[to].chan = "empty"
                      THEN [call EXCEPT
                              ![to].chan = "value", ![to].val = rd_frame]
                      ELSE call
    /\ rd_pc' = "read"
    /\ rd_frame' = NoFrame
    /\ pending_lock' = "free"
    /\ UNCHANGED <<connected, outbound_tx, in_flight, outbound, inbound,
                   cn_pc, cn_corr>>
    /\ UNCHANGED <<cbVars, storeVars, drainVars, clVars, poolVars, codecVars, headerVars, accessorVars, fpeVars, engineVars, cbxVars, v1Vars, serverVars, bufferVars>>

\* reader task, lines 466-478: read_message fails (EOF once everything sent
\* has been read, or an unrecoverable error) and the task ends; the pending
\* map is not touched
ReaderEof ==
    /\ rd_pc = "read"
    /\ inbound = {}
    /\ rd_pc' = "ended"
    /\ call' = [i \in Calls |->
                  IF call[i].pc = "wait" /\ call[i].chan = "empty"
                  THEN [call[i] EXCEPT !.eof_waiting = TRUE]
                  ELSE call[i]]
    /\ UNCHANGED <<connected, outbound_tx, pending, pending_lock, in_flight,
                   outbound, inbound, rd_frame, cn_pc, cn_corr>>
    /\ UNCHANGED <<cbVars, storeVars, drainVars, clVars, poolVars, codecVars, headerVars, accessorVars, fpeVars, engineVars, cbxVars, v1Vars, serverVars, bufferVars>>

\* cancel_request(c), lines 592-609: the Cancel frame is queued when there
\* is an outbound channel, the pending mutex taken
CancelLock ==
    /\ cn_pc = "idle"
    /\ pending_lock = "free"
    /\ \E c \in CorrIds : cn_corr' = c
    /\ cn_pc' = "remove"
    /\ pending_lock' = "cancel"
    /\ UNCHANGED <<connected, outbound_tx, pending, in_flight, outbound,
                   inbound, rd_pc, rd_frame, call>>
    /\ UNCHANGED <<cbVars, storeVars, drainVars, clVars, poolVars, codecVars, headerVars, accessorVars, fpeVars, engineVars, cbxVars, v1Vars, serverVars, bufferVars>>

\* cancel_request, line 609: remove(c) drops the sender; the guard is released
CancelRemove ==
    /\ cn_pc = "remove"
    /\ LET k == pending_get(pending, cn_corr)
       IN  /\ pending' = pending_remove(pending, cn_corr)
           /\ call' = drop_sender(call, k)
    /\ cn_pc' = "idle"
    /\ cn_corr' = "c1"
    /\ pending_lock' = "free"
    /\ UNCHANGED <<connected, outbound_tx, in_flight, outbound, inbound,
                   rd_pc, rd_frame>>
    /\ UNCHANGED <<cbVars, storeVars, drainVars, clVars, poolVars, codecVars, headerVars, accessorVars, fpeVars, engineVars, cbxVars, v1Vars, serverVars, bufferVars>>

UdsNext ==
    \/ Connect
    \/ Close
    \/ \E i \in Calls : SendLock(i)
    \/ \E i \in Calls : SendInsert(i)
    \/ \E i \in Calls : SendFrame(i)
    \/ \E i \in Calls : SendReceive(i)
    \/ \E i \in Calls : SendClosed(i)
    \/ \E i \in Calls : SendTimeout(i)
    \/ AgentRespond
    \/ ReaderRead
    \/ ReaderDeliver
    \/ ReaderEof
    \/ CancelLock
    \/ CancelRemove

\* C38: in_flight() always equals the number of send_event calls that have
\* written their frame and not yet ended, so it is 0 again once every call
\* has ended, with a response, with Timeout or with ConnectionClosed.
C38_InFlightCounts ==
    in_flight = Cardinality({i \in Calls : call[i].pc = "wait"})

\* C5: when a send_event call ends with Timeout, the pending map holds no
\* entry for its correlation id any more, whoever else is using the map.
C5_TimeoutRemovesPending ==
    [][\A i \in Calls :
         (call[i].result # "Timeout" /\ call'[i].result = "Timeout")
            => pending_get(pending', call[i].corr) = NoCall]_vars

\* C6: a response frame answering a call that has timed out is delivered to
\* no caller, in particular not to a later call registered under the same
\* correlation id.
C6_LateResponseDropped ==
    [][\A j \in Calls :
         (call[j].val = NoFrame /\ call'[j].val # NoFrame)
            => ~(call'[j].val.ev # j
                 /\ call[call'[j].val.ev].result = "Timeout")]_vars

\* C7: a call that was waiting for its response when the reader saw EOF
\* ends with ConnectionClosed, not with Timeout.
C7_EofEndsWaiters ==
    [][\A i \in Calls :
         (call[i].eof_waiting /\ call[i].pc = "wait" /\ call'[i].pc = "done")
            => call'[i].result = "ConnectionClosed"]_vars

\* C8: every call that ends with a response got a frame carrying its own
\* correlation id, and no response frame is delivered to two calls.
C8_Demultiplexing ==
    /\ \A i \in Calls :
           call[i].result = "response"
               => (/\ call[i].val # NoFrame
                   /\ call[i].val.correlation_id = call[i].corr)
    /\ \A i, j \in Calls :
           (i # j /\ call[i].val # NoFrame /\ call[j].val # NoFrame)
               => call[i].val # call[j].val

\* two calls with different correlation ids were outstanding together; the
\* second has ended with its response while the first, sent earlier, has its
\* own response waiting in its oneshot
C8_Witness ==
    /\ call[1].corr # call[2].corr
    /\ call[2].result = "response"
    /\ call[2].val.ev = 2
    /\ call[1].pc = "wait"
    /\ call[1].chan = "value"
    /\ call[1].val.ev = 1

\* C26: once a send_event call has ended without a response, the pending
\* map holds no entry registered by that call.
C26_NoPendingLeak ==
    \A i \in Calls :
        (call[i].pc = "done" /\ call[i].result \in {"ConnectionClosed", "Timeout"})
            => pending_get(pending, call[i].corr) # i

\* ------------------------------------------------------------------------
\* Graceful reload coordinator (crates/proxy/src/reload/coordinator.rs)
\* Time is counted in ticks of half a poll interval (50 ms); a sleeping
\* wait_for_drain wakes at its wake time or later.
\* ------------------------------------------------------------------------
\* tokio::time::sleep(Duration::from_millis(100)), in ticks
PollTicks == 2

\* one pass of the loop of wait_for_drain, lines 65-87: what a poll that
\* reads `count`, `elapsed` ticks after the start, leads to
\* (mutant: the deadline compared with >= instead of >)
drain_poll_ge(count, elapsed, max) ==
    IF count > 0
    THEN IF elapsed >= max THEN "false" ELSE "sleep"
    ELSE "true"

drain_poll(count, elapsed, max) ==
    IF count > 0
    THEN IF elapsed > max THEN "false" ELSE "sleep"
    ELSE "true"

\* History of a drain (not program state):
\*   after_shutdown  request_shutdown() had been called when the drain began
\*   zero_in_time    the counter was zero at some moment of the drain no
\*                   later than max_drain_time after its start
\*   polls           polls made (counted up to 2)
\*   last_at, last_count  when the last poll was made and what it read
\*   prev_at         when the poll before it was made
DrHistInit ==
    [after_shutdown |-> FALSE, zero_in_time |-> FALSE, polls |-> 0,
     last_at |-> 0, last_count |-> 0, prev_at |-> 0]

DrainInit ==
    /\ active_requests = 0
    /\ shutdown_requested = FALSE
    /\ max_drain_time \in 1..MaxDrainTime
    /\ dr_now = 0
    /\ dr_pc = "idle"
    /\ dr_start = 0
    /\ dr_wake = 0
    /\ dr_result = FALSE
    /\ dr_hist = DrHistInit

Draining == dr_pc = "sleep"

\* inc_requests, lines 38-41
IncRequests ==
    /\ active_requests < MaxActive
    /\ active_requests' = active_requests + 1
    /\ UNCHANGED <<shutdown_requested, max_drain_time, dr_now, dr_pc,
                   dr_start, dr_wake, dr_result, dr_hist>>
    /\ UNCHANGED <<cbVars, storeVars, udsVars, clVars, poolVars, codecVars, headerVars, accessorVars, fpeVars, engineVars, cbxVars, v1Vars, serverVars, bufferVars>>

\* dec_requests, lines 44-47, called when an admitted request completes
DecRequests ==
    /\ active_requests > 0
    /\ active_requests' = active_requests - 1
    /\ dr_hist' = IF Draining /\ active_requests' = 0
                     /\ dr_now - dr_start <= max_drain_time
                  THEN [dr_hist EXCEPT !.zero_in_time = TRUE]
                  ELSE dr_hist
    /\ UNCHANGED <<shutdown_requested, max_drain_time, dr_now, dr_pc,
                   dr_start, dr_wake, dr_result>>
    /\ UNCHANGED <<cbVars, storeVars, udsVars, clVars, poolVars, codecVars, headerVars, accessorVars, fpeVars, engineVars, cbxVars, v1Vars, serverVars, bufferVars>>

\* request_shutdown, lines 103-109
RequestShutdown ==
    /\ ~shutdown_requested
    /\ shutdown_requested' = TRUE
    /\ UNCHANGED <<active_requests, max_drain_time, dr_now, dr_pc, dr_start,
                   dr_wake, dr_result, dr_hist>>
    /\ UNCHANGED <<cbVars, storeVars, udsVars, clVars, poolVars, codecVars, headerVars, accessorVars, fpeVars, engineVars, cbxVars, v1Vars, serverVars, bufferVars>>

\* the effect of one poll of wait_for_drain made now
DrainPollNow(start, polls_before) ==
    LET r == drain_poll(active_requests, dr_now - start, max_drain_time)
    IN  /\ dr_pc' = IF r = "sleep" THEN "sleep" ELSE "done"
        /\ dr_result' = (r = "true")
        /\ dr_wake' = IF r = "sleep" THEN dr_now + PollTicks ELSE dr_wake
        /\ dr_hist' = [dr_hist EXCEPT
               !.after_shutdown = IF polls_before = 0 THEN shutdown_requested ELSE @,
               !.zero_in_time = IF polls_before = 0 THEN active_requests = 0 ELSE @,
               !.polls = Min(polls_before + 1, 2),
               !.prev_at = IF polls_before = 0 THEN dr_now ELSE dr_hist.last_at,
               !.last_at = dr_now,
               !.last_count = active_requests]

\* wait_for_drain is called, lines 54-65: start is taken and the first poll made
DrainStart ==
    /\ dr_pc = "idle"
    /\ dr_start' = dr_now
    /\ DrainPollNow(dr_now, 0)
    /\ UNCHANGED <<active_requests, shutdown_requested, max_drain_time, dr_now>>
    /\ UNCHANGED <<cbVars, storeVars, udsVars, clVars, poolVars, codecVars, headerVars, accessorVars, fpeVars, engineVars, cbxVars, v1Vars, serverVars, bufferVars>>

\* wait_for_drain wakes from its sleep and polls again, lines 65-87
DrainPoll ==
    /\ dr_pc = "sleep"
    /\ dr_now >= dr_wake
    /\ DrainPollNow(dr_start, dr_hist.polls)
    /\ UNCHANGED <<active_requests, shutdown_requested, max_drain_time,
                   dr_now, dr_start>>
    /\ UNCHANGED <<cbVars, storeVars, udsVars, clVars, poolVars, codecVars, headerVars, accessorVars, fpeVars, engineVars, cbxVars, v1Vars, serverVars, bufferVars>>

\* the clock advances by one tick
DrainTick ==
    /\ dr_now < MaxDrainClock
    /\ dr_now' = dr_now + 1
    /\ UNCHANGED <<active_requests, shutdown_requested, max_drain_time,
                   dr_pc, dr_start, dr_wake, dr_result, dr_hist>>
    /\ UNCHANGED <<cbVars, storeVars, udsVars, clVars, poolVars, codecVars, headerVars, accessorVars, fpeVars, engineVars, cbxVars, v1Vars, serverVars, bufferVars>>

DrainNext ==
    \/ IncRequests
    \/ DecRequests
    \/ RequestShutdown
    \/ DrainStart
    \/ DrainPoll
    \/ DrainTick

C10_NoAdmissionAfterShutdown ==
    [][shutdown_requested => active_requests' <= active_requests]_vars

\* ------------------------------------------------------------------------
\* v2 UDS client, control plane (crates/agent-protocol/src/v2/uds.rs):
\* the handshake of connect, the control frames the reader task handles,
\* cancel_request / cancel_all / close, and the health of the client as the
\* pool sees it (crates/agent-protocol/src/v2/pool.rs).  Calls are modelled
\* whole; the interleavings inside send_event are the subject of SpecUds.
\* ------------------------------------------------------------------------
PROTOCOL_VERSION_2 == 2
\* consecutive errors from which a pooled connection is unhealthy
UnhealthyErrors == 3

\* supported_versions of the UdsHandshakeRequest
OfferedVersions == {PROTOCOL_VERSION_2}

\* the features of UdsCapabilities the client's behaviour could depend on
Capabilities == [cancellation : BOOLEAN, flow_control : BOOLEAN]

HandshakeResponses ==
    [success : BOOLEAN, protocol_version : 1..MaxVersion,
     capabilities : Capabilities]

\* frame types the client may enqueue on its outbound channel
ClFrameTypes == {"RequestHeaders", "Cancel", "ConfigUpdateResponse"}

ClHistInit ==
    [response |-> <<>>, result |-> "none", cfg_received |-> 0,
     callback_calls |-> 0]

\* V2Transport::can_accept_requests: true for a UDS or reverse transport
can_accept_requests(conn) == conn.kind \in {"uds", "reverse"}

\* PooledConnection::is_healthy
is_healthy(conn) ==
    /\ conn.connected
    /\ conn.consecutive_errors < UnhealthyErrors
    /\ can_accept_requests(conn)

\* the client as a pooled connection that has had no request errors
ClPooled ==
    [kind |-> "uds", connected |-> cl_connected, consecutive_errors |-> 0]

\* the flow state the reader task writes for a FlowControl action
flow_state_of(action) == IF action = 1 THEN "Paused" ELSE "Normal"

\* the handshake check of connect, lines 354-358
handshake_accepts(resp) == resp.success

\* AgentClientV2Uds::new, and the callbacks set (or not) before connect
ClInit ==
    /\ cl_connected = FALSE
    /\ cl_outbound_tx = "None"
    /\ cl_capabilities = <<>>
    /\ cl_protocol_version = 0
    /\ cl_flow_state = "Normal"
    /\ cl_reader = [task |-> "none", flow_state |-> "Normal"]
    /\ cl_pending = {}
    /\ cl_written = [t \in ClFrameTypes |-> 0]
    /\ cl_callback \in BOOLEAN
    /\ cl_hist = ClHistInit

\* connect, lines 302-482: dial, handshake, then the writer and reader tasks
ClConnect ==
    /\ cl_hist.result = "none"
    /\ \/ \* the dial, the write or the read fails
          /\ cl_hist' = [cl_hist EXCEPT !.result = "ConnectionFailed"]
          /\ UNCHANGED <<cl_connected, cl_outbound_tx, cl_capabilities,
                         cl_protocol_version, cl_reader>>
       \/ \* the agent answers with another message type
          /\ cl_hist' = [cl_hist EXCEPT !.result = "InvalidMessage"]
          /\ UNCHANGED <<cl_connected, cl_outbound_tx, cl_capabilities,
                         cl_protocol_version, cl_reader>>
       \/ \E resp \in HandshakeResponses :
            IF handshake_accepts(resp)
            THEN /\ cl_capabilities' = <<resp.capabilities>>
                 /\ cl_protocol_version' = resp.protocol_version
                 /\ cl_outbound_tx' = "Some"
                 /\ cl_connected' = TRUE
                 /\ cl_reader' = [task |-> "running", flow_state |-> "Normal"]
                 /\ cl_hist' = [cl_hist EXCEPT !.response = <<resp>>,
                                               !.result = "Ok"]
            ELSE /\ cl_hist' = [cl_hist EXCEPT !.response = <<resp>>,
                                               !.result = "ConnectionFailed"]
                 /\ UNCHANGED <<cl_connected, cl_outbound_tx, cl_capabilities,
                                cl_protocol_version, cl_reader>>
    /\ UNCHANGED <<cl_flow_state, cl_pending, cl_written, cl_callback>>
    /\ UNCHANGED <<cbVars, storeVars, udsVars, drainVars, poolVars, codecVars, headerVars, accessorVars, fpeVars, engineVars, cbxVars, v1Vars, serverVars, bufferVars>>

\* send_event, lines 538-568: register the sender, enqueue the event
ClSendEvent(c) ==
    /\ c \notin cl_pending
    /\ cl_written["RequestHeaders"] < MaxFrames
    /\ cl_pending' = cl_pending \cup {c}
    /\ cl_written' = IF cl_outbound_tx = "Some"
                     THEN [cl_written EXCEPT !["RequestHeaders"] = @ + 1]
                     ELSE cl_written
    /\ UNCHANGED <<cl_connected, cl_outbound_tx, cl_capabilities,
                   cl_protocol_version, cl_flow_state, cl_reader, cl_callback,
                   cl_hist>>
    /\ UNCHANGED <<cbVars, storeVars, udsVars, drainVars, poolVars, codecVars, headerVars, accessorVars, fpeVars, engineVars, cbxVars, v1Vars, serverVars, bufferVars>>

\* reader task, AgentResponse arm, lines 404-421
ClAgentResponse(c) ==
    /\ cl_reader.task = "running"
    /\ c \in cl_pending
    /\ cl_pending' = cl_pending \ {c}
    /\ UNCHANGED <<cl_connected, cl_outbound_tx, cl_capabilities,
                   cl_protocol_version, cl_flow_state, cl_reader, cl_written,
                   cl_callback, cl_hist>>
    /\ UNCHANGED <<cbVars, storeVars, udsVars, drainVars, poolVars, codecVars, headerVars, accessorVars, fpeVars, engineVars, cbxVars, v1Vars, serverVars, bufferVars>>

\* send_event, lines 573-579: the deadline passes; the entry is removed when
\* try_lock succeeds
ClTimeout(c) ==
    /\ c \in cl_pending
    /\ \E got_lock \in BOOLEAN :
         cl_pending' = IF got_lock THEN cl_pending \ {c} ELSE cl_pending
    /\ UNCHANGED <<cl_connected, cl_outbound_tx, cl_capabilities,
                   cl_protocol_version, cl_flow_state, cl_reader, cl_written,
                   cl_callback, cl_hist>>
    /\ UNCHANGED <<cbVars, storeVars, udsVars, drainVars, poolVars, codecVars, headerVars, accessorVars, fpeVars, engineVars, cbxVars, v1Vars, serverVars, bufferVars>>

\* cancel_request, lines 587-612: enqueue a Cancel frame when the outbound
\* channel exists, then remove the pending entry
cancel_request(written, pend, tx, c) ==
    [written |-> IF tx = "Some"
                 THEN [written EXCEPT !["Cancel"] = @ + 1]
                 ELSE written,
     pending |-> pend \ {c}]

ClCancelRequest(c) ==
    /\ cl_written["Cancel"] < MaxFrames
    /\ LET r == cancel_request(cl_written, cl_pending, cl_outbound_tx, c)
       IN  /\ cl_written' = r.written
           /\ cl_pending' = r.pending
    /\ UNCHANGED <<cl_connected, cl_outbound_tx, cl_capabilities,
                   cl_protocol_version, cl_flow_state, cl_reader, cl_callback,
                   cl_hist>>
    /\ UNCHANGED <<cbVars, storeVars, udsVars, drainVars, poolVars, codecVars, headerVars, accessorVars, fpeVars, engineVars, cbxVars, v1Vars, serverVars, bufferVars>>

\* cancel_all, lines 615-627: cancel_request for every pending id
RECURSIVE cancel_all(_, _, _, _)
cancel_all(written, pend, tx, ids) ==
    IF ids = {} THEN [written |-> written, pending |-> pend]
    ELSE LET c == CHOOSE x \in ids : TRUE
             r == cancel_request(written, pend, tx, c)
         IN  cancel_all(r.written, r.pending, tx, ids \ {c})

ClCancelAll ==
    /\ cl_written["Cancel"] + Cardinality(cl_pending) <= MaxFrames
    /\ LET r == cancel_all(cl_written, cl_pending, cl_outbound_tx, cl_pending)
       IN  /\ cl_written' = r.written
           /\ cl_pending' = r.pending
    /\ UNCHANGED <<cl_connected, cl_outbound_tx, cl_capabilities,
                   cl_protocol_version, cl_flow_state, cl_reader, cl_callback,
                   cl_hist>>
    /\ UNCHANGED <<cbVars, storeVars, udsVars, drainVars, poolVars, codecVars, headerVars, accessorVars, fpeVars, engineVars, cbxVars, v1Vars, serverVars, bufferVars>>

\* reader task, FlowControl arm, lines 436-446: the state is written to the
\* flow_state the task created at line 392, not to the client's field
ClFlowControl ==
    /\ cl_reader.task = "running"
    /\ \E action \in 0..2 :
         cl_reader' = [cl_reader EXCEPT !.flow_state = flow_state_of(action)]
    /\ UNCHANGED <<cl_connected, cl_outbound_tx, cl_capabilities,
                   cl_protocol_version, cl_flow_state, cl_pending, cl_written,
                   cl_callback, cl_hist>>
    /\ UNCHANGED <<cbVars, storeVars, udsVars, drainVars, poolVars, codecVars, headerVars, accessorVars, fpeVars, engineVars, cbxVars, v1Vars, serverVars, bufferVars>>

\* reader task, ConfigUpdateRequest arm, lines 447-453, for a well-formed
\* request: the callback is called and its response dropped
ClConfigUpdateRequest ==
    /\ cl_reader.task = "running"
    /\ cl_hist.cfg_received < MaxFrames
    /\ cl_hist' = [cl_hist EXCEPT
           !.cfg_received = @ + 1,
           !.callback_calls = IF cl_callback THEN @ + 1 ELSE @]
    /\ UNCHANGED <<cl_connected, cl_outbound_tx, cl_capabilities,
                   cl_protocol_version, cl_flow_state, cl_reader, cl_pending,
                   cl_written, cl_callback>>
    /\ UNCHANGED <<cbVars, storeVars, udsVars, drainVars, poolVars, codecVars, headerVars, accessorVars, fpeVars, engineVars, cbxVars, v1Vars, serverVars, bufferVars>>

\* reader task, lines 466-477: a read error (EOF included) ends the task
ClReaderEof ==
    /\ cl_reader.task = "running"
    /\ cl_reader' = [cl_reader EXCEPT !.task = "ended"]
    /\ UNCHANGED <<cl_connected, cl_outbound_tx, cl_capabilities,
                   cl_protocol_version, cl_flow_state, cl_pending, cl_written,
                   cl_callback, cl_hist>>
    /\ UNCHANGED <<cbVars, storeVars, udsVars, drainVars, poolVars, codecVars, headerVars, accessorVars, fpeVars, engineVars, cbxVars, v1Vars, serverVars, bufferVars>>

\* close, lines 651-655
ClClose ==
    /\ cl_connected' = FALSE
    /\ cl_outbound_tx' = "None"
    /\ UNCHANGED <<cl_capabilities, cl_protocol_version, cl_flow_state,
                   cl_reader, cl_pending, cl_written, cl_callback, cl_hist>>
    /\ UNCHANGED <<cbVars, storeVars, udsVars, drainVars, poolVars, codecVars, headerVars, accessorVars, fpeVars, engineVars, cbxVars, v1Vars, serverVars, bufferVars>>

ClNext ==
    \/ ClConnect
    \/ \E c \in CorrIds : ClSendEvent(c)
    \/ \E c \in CorrIds : ClAgentResponse(c)
    \/ \E c \in CorrIds : ClTimeout(c)
    \/ \E c \in CorrIds : ClCancelRequest(c)
    \/ ClCancelAll
    \/ ClFlowControl
    \/ ClConfigUpdateRequest
    \/ ClReaderEof
    \/ ClClose

\* C13: for an agent that supports flow control, while the last FlowControl
\* signal the reader processed is a pause, the connection's flow state is
\* Paused and the connection is not healthy, so that select_connection,
\* which picks among the healthy connections, cannot pick it.
C13_PausedNotSelected ==
    (/\ cl_capabilities # <<>>
     /\ cl_capabilities[1].flow_control
     /\ cl_reader.task = "running"
     /\ cl_reader.flow_state = "Paused")
        => (cl_flow_state = "Paused" /\ ~is_healthy(ClPooled))

\* C15: a Cancel frame is enqueued only for an agent whose negotiated
\* capabilities include cancellation.
C15_CancelNeedsCapability ==
    cl_written["Cancel"] > 0
        => (cl_capabilities # <<>> /\ cl_capabilities[1].cancellation)

\* C18: a HandshakeResponse with success = false, or with a protocol_version
\* the proxy did not offer, makes connect fail with ConnectionFailed and
\* leaves the client not connected, without writer and reader tasks.
C18_HandshakeRejected ==
    (/\ cl_hist.response # <<>>
     /\ \/ ~cl_hist.response[1].success
        \/ cl_hist.response[1].protocol_version \notin OfferedVersions)
        => /\ cl_hist.result = "ConnectionFailed"
           /\ ~cl_connected
           /\ cl_outbound_tx = "None"
           /\ cl_reader.task = "none"

\* C19: for every ConfigUpdateRequest the reader has received it has called
\* the callback (when one is set) and enqueued one ConfigUpdateResponse.
C19_ConfigUpdateAcked ==
    /\ cl_written["ConfigUpdateResponse"] = cl_hist.cfg_received
    /\ cl_callback => cl_hist.callback_calls = cl_hist.cfg_received

\* C17: once the reader task has ended, the connection no longer counts as
\* healthy, so that the maintenance loop's healthy count drops below
\* connections_per_agent and it dials a replacement, with no request sent.
C17_EndedReaderUnhealthy ==
    cl_reader.task = "ended" => ~is_healthy(ClPooled)

\* ------------------------------------------------------------------------
\* v2 agent connection pool (crates/agent-protocol/src/v2/pool.rs), for one
\* agent with a UDS endpoint.  agents.read() is held by select_connection
\* and by a pass of run_maintenance, agents.write() by add_agent,
\* add_reverse_connection and the first statement of shutdown; a writer that
\* waits keeps later readers out (tokio's RwLock is fair).
\* ------------------------------------------------------------------------
ConnIds == 1..MaxConns
\* the strategies modelled, of RoundRobin, LeastConnections, HealthBased
\* and Random
LoadBalanceStrategy == {"RoundRobin", "LeastConnections"}
Reqs == {"r1", "r2"}

AgentEntryNew ==
    [connections |-> <<>>, round_robin_index |-> 0, reconnect_attempts |-> 0,
     last_reconnect_attempt |-> "None", healthy |-> TRUE]

\* a connection id not yet used
NoConn == [kind |-> "free", connected |-> FALSE, consecutive_errors |-> 0,
           in_flight |-> 0, permits |-> 0]

\* PooledConnection::new over a connected client
PooledConnectionNew(kind) ==
    [kind |-> kind, connected |-> TRUE, consecutive_errors |-> 0,
     in_flight |-> 0, permits |-> MaxConcurrent]

NoReq == [pc |-> "idle", conn |-> 0, healthy |-> <<>>]

PlHistInit ==
    [selected |-> [c \in ConnIds |-> 0], steady |-> TRUE, tied |-> TRUE]

free_conns == {c \in ConnIds : pl_conn[c].kind = "free"}

\* the smallest k unused connection ids, in order
RECURSIVE fresh_conns(_, _)
fresh_conns(free, k) ==
    IF k = 0 \/ free = {} THEN <<>>
    ELSE LET c == CHOOSE x \in free : \A y \in free : x <= y
         IN  <<c>> \o fresh_conns(free \ {c}, k - 1)

\* select_connection, lines 1042-1047: the healthy connections, in order
RECURSIVE healthy_filter(_, _)
healthy_filter(connections, conn) ==
    IF connections = <<>> THEN <<>>
    ELSE (IF is_healthy(conn[Head(connections)])
          THEN <<Head(connections)>> ELSE <<>>)
         \o healthy_filter(Tail(connections), conn)

\* select_connection, lines 1061-1067: Iterator::min_by_key over the healthy
\* connections returns the first of those with the least in_flight
least_connections_pick(healthy, conn) ==
    healthy[CHOOSE i \in 1..Len(healthy) :
                \A j \in 1..Len(healthy) :
                    \/ conn[healthy[i]].in_flight < conn[healthy[j]].in_flight
                    \/ /\ conn[healthy[i]].in_flight = conn[healthy[j]].in_flight
                       /\ i <= j]

\* the healthy connections all have the same in_flight
all_tied(healthy, conn) ==
    \A i, j \in 1..Len(healthy) :
        conn[healthy[i]].in_flight = conn[healthy[j]].in_flight

RECURSIVE selections_made(_, _)
\* the number of selections counted in the history
selections_made(selected, n) ==
    IF n = 0 THEN 0 ELSE selected[n] + selections_made(selected, n - 1)

\* mutant of round_robin_next: the cursor is read and not advanced
round_robin_stuck(idx) == idx

\* select_connection, line 1058: round_robin_index.fetch_add(1)
round_robin_next(idx) == idx + 1

\* select_connection, line 1059: healthy[idx % healthy.len()]
round_robin_pick(healthy, idx) == healthy[(idx % Len(healthy)) + 1]

\* someone holds agents.read()
agents_read_held ==
    \/ pl_mt \in {"handshake", "push"}
    \/ \E r \in Reqs : pl_req[r].pc = "pick"

\* shutdown waits for agents.write()
agents_writer_waits == pl_sd.pc = "lock"

\* the connections of the entry changed, or one of them changed health:
\* the selections counted so far were not all made over one healthy set
unsteady(hist, entry) ==
    [hist EXCEPT !.steady =
        @ /\ selections_made(hist.selected, MaxConns) = 0
          /\ \A r \in Reqs : pl_req[r].pc # "pick"]

\* AgentPool::with_config, lines 339-374
PoolInit ==
    /\ pl_config \in [load_balance_strategy : LoadBalanceStrategy]
    /\ pl_in_map = FALSE
    /\ pl_entry = AgentEntryNew
    /\ pl_conn = [c \in ConnIds |-> NoConn]
    /\ pl_req = [r \in Reqs |-> NoReq]
    /\ pl_mt = "idle"
    /\ pl_sd = [pc |-> "idle", conns |-> <<>>, waited |-> 0]
    /\ pl_hist = PlHistInit

\* add_agent, lines 425-499: connections_per_agent create_connection calls,
\* of which k succeed; the entry is stored when k > 0
AddAgent ==
    /\ ~pl_in_map
    /\ pl_sd.pc = "idle"
    /\ ~agents_read_held
    /\ \E k \in 0..ConnectionsPerAgent :
         LET new == fresh_conns(free_conns, k)
         IN  IF new = <<>>
             THEN UNCHANGED <<pl_in_map, pl_entry, pl_conn>>
             ELSE /\ pl_in_map' = TRUE
                  /\ pl_entry' = [AgentEntryNew EXCEPT !.connections = new]
                  /\ pl_conn' = [c \in ConnIds |->
                         IF \E i \in 1..Len(new) : new[i] = c
                         THEN PooledConnectionNew("uds") ELSE pl_conn[c]]
    /\ UNCHANGED <<pl_req, pl_mt, pl_sd, pl_hist>>
    /\ UNCHANGED <<pl_config, cbVars, storeVars, udsVars, drainVars, clVars, codecVars, headerVars, accessorVars, fpeVars, engineVars, cbxVars, v1Vars, serverVars, bufferVars>>

\* add_reverse_connection, lines 532-608
AddReverseConnection ==
    /\ pl_sd.pc = "idle"
    /\ free_conns # {}
    /\ ~agents_read_held
    /\ ~agents_writer_waits
    /\ LET c == fresh_conns(free_conns, 1)[1]
       IN  IF pl_in_map
           THEN IF Len(pl_entry.connections) >= ConnectionsPerAgent
                THEN UNCHANGED <<pl_in_map, pl_entry, pl_conn, pl_hist>>
                ELSE /\ pl_entry' = [pl_entry EXCEPT
                            !.connections = Append(@, c)]
                     /\ pl_conn' = [pl_conn EXCEPT
                            ![c] = PooledConnectionNew("reverse")]
                     /\ pl_hist' = unsteady(pl_hist, pl_entry)
                     /\ UNCHANGED pl_in_map
           ELSE /\ pl_in_map' = TRUE
                /\ pl_entry' = [AgentEntryNew EXCEPT !.connections = <<c>>]
                /\ pl_conn' = [pl_conn EXCEPT
                       ![c] = PooledConnectionNew("reverse")]
                /\ pl_hist' = [pl_hist EXCEPT
                       !.selected = [x \in ConnIds |-> 0], !.steady = TRUE,
                       !.tied = TRUE]
    /\ UNCHANGED <<pl_req, pl_mt, pl_sd>>
    /\ UNCHANGED <<pl_config, cbVars, storeVars, udsVars, drainVars, clVars, codecVars, headerVars, accessorVars, fpeVars, engineVars, cbxVars, v1Vars, serverVars, bufferVars>>

\* send_request_headers -> select_connection, lines 1021-1054: look the entry
\* up and collect its healthy connections
ReqFilter(r) ==
    /\ pl_req[r].pc = "idle"
    /\ pl_sd.pc # "done"
    /\ pl_in_map
    /\ ~agents_writer_waits
    /\ (IF pl_config.load_balance_strategy = "RoundRobin"
        THEN pl_entry.round_robin_index
        ELSE selections_made(pl_hist.selected, MaxConns))
           + Cardinality({q \in Reqs : pl_req[q].pc = "pick"}) < MaxSelections
    /\ LET healthy == healthy_filter(pl_entry.connections, pl_conn)
       IN  IF healthy = <<>>
           THEN UNCHANGED pl_req
           ELSE pl_req' = [pl_req EXCEPT
                    ![r] = [pc |-> "pick", conn |-> 0, healthy |-> healthy]]
    /\ UNCHANGED <<pl_in_map, pl_entry, pl_conn, pl_mt, pl_sd, pl_hist>>
    /\ UNCHANGED <<pl_config, cbVars, storeVars, udsVars, drainVars, clVars, codecVars, headerVars, accessorVars, fpeVars, engineVars, cbxVars, v1Vars, serverVars, bufferVars>>

\* select_connection, lines 1056-1067: RoundRobin advances the cursor and
\* picks by it, LeastConnections picks by in_flight and leaves the cursor
ReqPick(r) ==
    /\ pl_req[r].pc = "pick"
    /\ LET idx == pl_entry.round_robin_index
           healthy == pl_req[r].healthy
           rr == pl_config.load_balance_strategy = "RoundRobin"
           c == IF rr THEN round_robin_pick(healthy, idx)
                ELSE least_connections_pick(healthy, pl_conn)
       IN  /\ pl_entry' = IF rr
                          THEN [pl_entry EXCEPT
                                  !.round_robin_index = round_robin_next(idx)]
                          ELSE pl_entry
           /\ pl_req' = [pl_req EXCEPT
                  ![r] = [pc |-> "acquire", conn |-> c, healthy |-> <<>>]]
           /\ pl_hist' = [pl_hist EXCEPT
                  !.selected[c] = @ + 1,
                  !.tied = @ /\ (rr \/ all_tied(healthy, pl_conn))]
    /\ UNCHANGED <<pl_in_map, pl_conn, pl_mt, pl_sd>>
    /\ UNCHANGED <<pl_config, cbVars, storeVars, udsVars, drainVars, clVars, codecVars, headerVars, accessorVars, fpeVars, engineVars, cbxVars, v1Vars, serverVars, bufferVars>>

\* the permit is taken: in_flight += 1, and the client call begins
take_permit(conn, c) ==
    [conn EXCEPT ![c].permits = @ - 1, ![c].in_flight = @ + 1]

\* send_request_headers, lines 623-629: concurrency_limiter.acquire().await
\* returns at once when a permit is free and waits for one otherwise
ReqAcquire(r) ==
    /\ pl_req[r].pc = "acquire"
    /\ LET c == pl_req[r].conn
       IN  IF pl_conn[c].permits > 0
           THEN /\ pl_conn' = take_permit(pl_conn, c)
                /\ pl_req' = [pl_req EXCEPT ![r].pc = "sending"]
           ELSE /\ pl_req' = [pl_req EXCEPT ![r].pc = "permit_wait"]
                /\ UNCHANGED pl_conn
    /\ UNCHANGED <<pl_in_map, pl_entry, pl_mt, pl_sd, pl_hist>>
    /\ UNCHANGED <<pl_config, cbVars, storeVars, udsVars, drainVars, clVars, codecVars, headerVars, accessorVars, fpeVars, engineVars, cbxVars, v1Vars, serverVars, bufferVars>>

\* the waiting acquire() is woken by a released permit
ReqPermit(r) ==
    /\ pl_req[r].pc = "permit_wait"
    /\ pl_conn[pl_req[r].conn].permits > 0
    /\ pl_conn' = take_permit(pl_conn, pl_req[r].conn)
    /\ pl_req' = [pl_req EXCEPT ![r].pc = "sending"]
    /\ UNCHANGED <<pl_in_map, pl_entry, pl_mt, pl_sd, pl_hist>>
    /\ UNCHANGED <<pl_config, cbVars, storeVars, udsVars, drainVars, clVars, codecVars, headerVars, accessorVars, fpeVars, engineVars, cbxVars, v1Vars, serverVars, bufferVars>>

\* send_request_headers, lines 632-649: the client call returns ok or with
\* an error; in_flight -= 1, the error counters, the permit is dropped
ReqFinish(r) ==
    /\ pl_req[r].pc = "sending"
    /\ LET c == pl_req[r].conn
       IN  \E ok \in BOOLEAN :
             LET after == [pl_conn EXCEPT
                     ![c].in_flight = @ - 1,
                     ![c].permits = @ + 1,
                     ![c].consecutive_errors = IF ok THEN 0 ELSE @ + 1]
             IN  /\ pl_conn' = after
                 /\ pl_hist' = IF is_healthy(pl_conn[c]) /\ ~is_healthy(after[c])
                               THEN unsteady(pl_hist, pl_entry)
                               ELSE pl_hist
    /\ pl_req' = [pl_req EXCEPT ![r] = NoReq]
    /\ UNCHANGED <<pl_in_map, pl_entry, pl_mt, pl_sd>>
    /\ UNCHANGED <<pl_config, cbVars, storeVars, udsVars, drainVars, clVars, codecVars, headerVars, accessorVars, fpeVars, engineVars, cbxVars, v1Vars, serverVars, bufferVars>>

\* run_maintenance, lines 940-946
healthy_count(connections, conn) == Len(healthy_filter(connections, conn))

\* run_maintenance, lines 936-967, one tick for the entry: agents.read() is
\* taken, the healthy connections counted, the entry's healthy flag
\* written and a reconnect decided; then
\* reconnect_agent, lines 1093-1106, and create_connection up to the
\* handshake request of connect(): the socket connects or is refused.
\* The counter is only compared with max_reconnect_attempts: it is kept
\* at one above it once it has passed it.
MaintCheck ==
    /\ pl_mt = "idle"
    /\ pl_in_map
    /\ pl_sd.pc # "done"
    /\ ~agents_writer_waits
    /\ LET n == healthy_count(pl_entry.connections, pl_conn)
           attempts == pl_entry.reconnect_attempts
       IN  IF n < ConnectionsPerAgent
              /\ pl_entry.last_reconnect_attempt \in {"None", "old"}
           THEN /\ pl_entry' = [pl_entry EXCEPT
                       !.healthy = n > 0,
                       !.last_reconnect_attempt = "recent",
                       !.reconnect_attempts =
                           IF attempts > MaxReconnectAttempts
                           THEN attempts ELSE attempts + 1]
                /\ IF attempts >= MaxReconnectAttempts
                   THEN pl_mt' = "idle"
                   ELSE \E dialled \in BOOLEAN :
                          pl_mt' = IF dialled THEN "handshake" ELSE "idle"
           ELSE /\ pl_entry' = [pl_entry EXCEPT !.healthy = n > 0]
                /\ UNCHANGED pl_mt
    /\ UNCHANGED <<pl_in_map, pl_conn, pl_req, pl_sd, pl_hist>>
    /\ UNCHANGED <<pl_config, cbVars, storeVars, udsVars, drainVars, clVars, codecVars, headerVars, accessorVars, fpeVars, engineVars, cbxVars, v1Vars, serverVars, bufferVars>>

\* the agent answers the handshake request that connect() is reading for
\* (uds.rs line 338), the read has no timeout
AgentHandshakeReply ==
    /\ pl_mt = "handshake"
    /\ pl_mt' \in {IF handshake_accepts(resp) THEN "push" ELSE "idle" :
                      resp \in HandshakeResponses}
    /\ UNCHANGED <<pl_in_map, pl_entry, pl_conn, pl_req, pl_sd, pl_hist>>
    /\ UNCHANGED <<pl_config, cbVars, storeVars, udsVars, drainVars, clVars, codecVars, headerVars, accessorVars, fpeVars, engineVars, cbxVars, v1Vars, serverVars, bufferVars>>

\* reconnect_agent, lines 1107-1113: connections.write(), push, attempts = 0
MaintPush ==
    /\ pl_mt = "push"
    /\ \A r \in Reqs : pl_req[r].pc # "pick"
    /\ IF free_conns = {}
       THEN UNCHANGED <<pl_entry, pl_conn, pl_hist>>
       ELSE LET c == fresh_conns(free_conns, 1)[1]
            IN  /\ pl_entry' = [pl_entry EXCEPT
                       !.connections = Append(@, c),
                       !.reconnect_attempts = 0]
                /\ pl_conn' = [pl_conn EXCEPT ![c] = PooledConnectionNew("uds")]
                /\ pl_hist' = unsteady(pl_hist, pl_entry)
    /\ pl_mt' = "idle"
    /\ UNCHANGED <<pl_in_map, pl_req, pl_sd>>
    /\ UNCHANGED <<pl_config, cbVars, storeVars, udsVars, drainVars, clVars, codecVars, headerVars, accessorVars, fpeVars, engineVars, cbxVars, v1Vars, serverVars, bufferVars>>

\* reconnect_interval passes since last_reconnect_attempt
PoolTick ==
    /\ pl_entry.last_reconnect_attempt = "recent"
    /\ pl_entry' = [pl_entry EXCEPT !.last_reconnect_attempt = "old"]
    /\ UNCHANGED <<pl_in_map, pl_conn, pl_req, pl_mt, pl_sd, pl_hist>>
    /\ UNCHANGED <<pl_config, cbVars, storeVars, udsVars, drainVars, clVars, codecVars, headerVars, accessorVars, fpeVars, engineVars, cbxVars, v1Vars, serverVars, bufferVars>>

\* shutdown, line 885: the call begins and asks for agents.write()
ShutdownStart ==
    /\ pl_sd.pc = "idle"
    /\ pl_sd' = [pl_sd EXCEPT !.pc = "lock"]
    /\ UNCHANGED <<pl_in_map, pl_entry, pl_conn, pl_req, pl_mt, pl_hist>>
    /\ UNCHANGED <<pl_config, cbVars, storeVars, udsVars, drainVars, clVars, codecVars, headerVars, accessorVars, fpeVars, engineVars, cbxVars, v1Vars, serverVars, bufferVars>>

seq_range(s) == {s[i] : i \in 1..Len(s)}

\* shutdown, lines 885-896: agents.write() is granted, the map drained,
\* cancel_all(ProxyShutdown) called on every connection, the deadline set
ShutdownTake ==
    /\ pl_sd.pc = "lock"
    /\ ~agents_read_held
    /\ pl_in_map' = FALSE
    /\ pl_sd' = [pc |-> "poll",
                 conns |-> IF pl_in_map THEN pl_entry.connections ELSE <<>>,
                 waited |-> 0]
    /\ UNCHANGED <<pl_entry, pl_conn, pl_req, pl_mt, pl_hist>>
    /\ UNCHANGED <<pl_config, cbVars, storeVars, udsVars, drainVars, clVars, codecVars, headerVars, accessorVars, fpeVars, engineVars, cbxVars, v1Vars, serverVars, bufferVars>>

RECURSIVE total_in_flight(_, _)
\* shutdown, line 899
total_in_flight(connections, conn) ==
    IF connections = <<>> THEN 0
    ELSE conn[Head(connections)].in_flight
             + total_in_flight(Tail(connections), conn)

\* shutdown, lines 898-921: one turn of the drain loop, the clock counted in
\* 100 ms sleeps; on leaving the loop close() on every connection, return
ShutdownPoll ==
    /\ pl_sd.pc = "poll"
    /\ IF total_in_flight(pl_sd.conns, pl_conn) = 0
          \/ pl_sd.waited > DrainTimeout
       THEN /\ pl_conn' = [c \in ConnIds |->
                   IF c \in seq_range(pl_sd.conns)
                   THEN [pl_conn[c] EXCEPT !.connected = FALSE]
                   ELSE pl_conn[c]]
            /\ pl_sd' = [pl_sd EXCEPT !.pc = "done"]
       ELSE /\ pl_sd' = [pl_sd EXCEPT !.waited = @ + 1]
            /\ UNCHANGED pl_conn
    /\ UNCHANGED <<pl_in_map, pl_entry, pl_req, pl_mt, pl_hist>>
    /\ UNCHANGED <<pl_config, cbVars, storeVars, udsVars, drainVars, clVars, codecVars, headerVars, accessorVars, fpeVars, engineVars, cbxVars, v1Vars, serverVars, bufferVars>>

PoolNext ==
    \/ AddAgent
    \/ AddReverseConnection
    \/ \E r \in Reqs : ReqFilter(r)
    \/ \E r \in Reqs : ReqPick(r)
    \/ \E r \in Reqs : ReqAcquire(r)
    \/ \E r \in Reqs : ReqPermit(r)
    \/ \E r \in Reqs : ReqFinish(r)
    \/ MaintCheck
    \/ AgentHandshakeReply
    \/ MaintPush
    \/ PoolTick
    \/ ShutdownStart
    \/ ShutdownTake
    \/ ShutdownPoll

\* the maintenance task and what it works on: an agent added with some of
\* its connections, its connections failing under requests, the reconnects
PoolMaintNext ==
    \/ AddAgent
    \/ \E r \in Reqs : ReqFilter(r)
    \/ \E r \in Reqs : ReqPick(r)
    \/ \E r \in Reqs : ReqAcquire(r)
    \/ \E r \in Reqs : ReqPermit(r)
    \/ \E r \in Reqs : ReqFinish(r)
    \/ MaintCheck
    \/ AgentHandshakeReply
    \/ MaintPush
    \/ PoolTick

\* run_maintenance is a spawned task that loops on interval.tick(): each of
\* its steps is taken when it stays possible, the reconnect interval
\* passes, and the agent answers a handshake it was sent
PoolMaintFair ==
    /\ WF_vars(MaintCheck)
    /\ WF_vars(PoolTick)
    /\ WF_vars(AgentHandshakeReply)
    /\ WF_vars(MaintPush)

\* C37: reconnect liveness: when max_reconnect_attempts reconnect attempts
\* in a row have failed and the entry lacks connections, the maintenance
\* loop eventually dials the (reachable) endpoint again and the socket
\* connects; backing off is never permanent.
C37_ReconnectLive ==
    (/\ pl_in_map
     /\ pl_entry.reconnect_attempts >= MaxReconnectAttempts
     /\ healthy_count(pl_entry.connections, pl_conn) < ConnectionsPerAgent)
        ~> pl_mt = "handshake"

\* is_agent_healthy, lines 862-872
is_agent_healthy == IF pl_in_map THEN pl_entry.healthy ELSE FALSE

\* stats, lines 799-838: the entry's AgentPoolStats, <<>> without an entry
stats ==
    IF pl_in_map
    THEN <<[active_connections |-> Len(pl_entry.connections),
            healthy_connections |->
                healthy_count(pl_entry.connections, pl_conn),
            is_healthy |-> pl_entry.healthy]>>
    ELSE <<>>

\* C11: a send routed to a connection whose permits are all taken fails with
\* ConnectionFailed at once; no send is ever left waiting for a permit.
C11_NoWaitForPermit ==
    \A r \in Reqs : pl_req[r].pc # "permit_wait"

\* C12: RoundRobin fairness.  While the entry's connections are the same
\* ones and all stay healthy over the selections counted, the numbers of
\* times any two of them were selected differ by at most 1, whether the
\* selections ran one after another or overlapped.
C12_RoundRobinFair ==
    pl_hist.steady =>
        \A i, j \in 1..Len(pl_entry.connections) :
            pl_hist.selected[pl_entry.connections[i]]
                - pl_hist.selected[pl_entry.connections[j]] <= 1

\* three selections over two healthy connections, the last two overlapping
C12_Witness ==
    /\ pl_hist.steady
    /\ Len(pl_entry.connections) = 2
    /\ pl_hist.selected[pl_entry.connections[1]] = 2
    /\ pl_hist.selected[pl_entry.connections[2]] = 1
    /\ \A r \in Reqs : pl_req[r].pc \in {"acquire", "permit_wait", "sending"}

\* C14: the entry never holds more than connections_per_agent connections.
C14_ConnectionCap ==
    Len(pl_entry.connections) <= ConnectionsPerAgent

\* C16: shutdown() always returns.  Its first step waits for agents.write(),
\* so every holder of agents.read() must be able to release it by steps of
\* the proxy alone: shutdown never waits behind a maintenance pass that is
\* itself waiting for an agent to answer a handshake.
C16_ShutdownNotBlocked ==
    pl_sd.pc = "lock" => pl_mt # "handshake"

\* C24: an entry with no healthy connection is reported unhealthy by
\* is_agent_healthy() and by stats().
C24_NoHealthyMeansUnhealthy ==
    (pl_in_map /\ healthy_count(pl_entry.connections, pl_conn) = 0)
        => (~is_agent_healthy /\ ~stats[1].is_healthy)

\* C25: with LeastConnections, ties for the least in-flight count are
\* broken by the cursor: while the connections stay the same and healthy and
\* every selection found them all tied, the selections rotate over them, so
\* the numbers of times any two were selected differ by at most 1.
C25_TiesRotate ==
    (/\ pl_config.load_balance_strategy = "LeastConnections"
     /\ pl_hist.steady
     /\ pl_hist.tied)
        => \A i, j \in 1..Len(pl_entry.connections) :
               pl_hist.selected[pl_entry.connections[i]]
                   - pl_hist.selected[pl_entry.connections[j]] <= 1

\* ------------------------------------------------------------------------
\* Binary framing (crates/agent-protocol/src/binary.rs) and the UDS frame
\* functions write_message / read_message (v2/uds.rs).  Records are encoded
\* to sequences of bytes; a frame's payload is an opaque run of bytes, of
\* which the frame functions read only the length.
\* ------------------------------------------------------------------------
MAX_BINARY_MESSAGE_SIZE == 10485760
MAX_UDS_MESSAGE_SIZE == 16777216
U16 == 65536

\* strings, as UTF-8 bytes
Strs == {<<>>, <<97>>}
\* Option<T>: None is <<>>, Some(x) is <<x>>
OptionOf(S) == {<<>>} \cup {<<x>> : x \in S}
\* HashMap<String, String> with at most one key
NoMap == [k \in {} |-> <<>>]
StringMaps == {NoMap, [k \in {<<107>>} |-> <<118>>]}

Decisions ==
    {[type |-> "Allow"]}
    \cup [type : {"Block"}, status : {403}, body : OptionOf(Strs),
          headers : OptionOf(StringMaps)]
    \cup [type : {"Redirect"}, url : Strs, status : {302}]
    \cup [type : {"Challenge"}, challenge_type : {<<97>>}, params : StringMaps]

HeaderOps ==
    [op : {"Set", "Add"}, name : {<<107>>}, value : {<<118>>}]
    \cup [op : {"Remove"}, name : {<<107>>}]

HeaderOpLists == {<<>>} \cup {<<o>> : o \in HeaderOps}

BinaryAgentResponses ==
    [kind : {"BinaryAgentResponse"}, correlation_id : {<<99>>},
     decision : Decisions, request_headers : HeaderOpLists,
     response_headers : {<<>>, <<[op |-> "Remove", name |-> <<107>>]>>},
     needs_more : BOOLEAN]

\* the message types, as their bytes
MessageTypeBytes == {1, 2, 16, 17, 18, 19, 20, 21, 32, 48, 49, 64, 255}

\* payload lengths around the two size limits
PayloadLens ==
    {0, 1, MAX_BINARY_MESSAGE_SIZE - 1, MAX_BINARY_MESSAGE_SIZE,
     MAX_UDS_MESSAGE_SIZE - 1, MAX_UDS_MESSAGE_SIZE, MAX_UDS_MESSAGE_SIZE + 1}

Frames ==
    [kind : {"BinaryFrame", "UdsMessage"}, msg_type : MessageTypeBytes,
     payload_len : PayloadLens]

CodecErr == [ok |-> FALSE]
CodecOk(v, rest) == [ok |-> TRUE, val |-> v, rest |-> rest]

\* BufMut::put_u16 of (n as u16), Buf::get_u16: big-endian
put_u16(n) == <<(n % U16) \div 256, n % 256>>
get_u16(d) == d[1] * 256 + d[2]
drop_bytes(d, n) == SubSeq(d, n + 1, Len(d))

put_string(s) == put_u16(Len(s)) \o s

get_string(d) ==
    IF Len(d) < 2 THEN CodecErr
    ELSE LET len == get_u16(d)
             rest == drop_bytes(d, 2)
         IN  IF Len(rest) < len THEN CodecErr
             ELSE CodecOk(SubSeq(rest, 1, len), drop_bytes(rest, len))

put_optional_string(o) ==
    IF o = <<>> THEN <<0>> ELSE <<1>> \o put_string(o[1])

get_optional_string(d) ==
    IF Len(d) < 1 THEN CodecErr
    ELSE IF d[1] # 0
         THEN LET s == get_string(drop_bytes(d, 1))
              IN  IF s.ok THEN CodecOk(<<s.val>>, s.rest) ELSE CodecErr
         ELSE CodecOk(<<>>, drop_bytes(d, 1))

\* the (k, v) entries of a map, in the order its iterator yields them
RECURSIVE put_entries(_)
put_entries(m) ==
    IF DOMAIN m = {} THEN <<>>
    ELSE LET k == CHOOSE x \in DOMAIN m : TRUE
         IN  put_string(k) \o put_string(m[k])
                 \o put_entries([x \in DOMAIN m \ {k} |-> m[x]])

\* n times get_string, get_string, HashMap::insert
RECURSIVE get_entries(_, _, _)
get_entries(d, n, m) ==
    IF n = 0 THEN CodecOk(m, d)
    ELSE LET k == get_string(d)
         IN  IF ~k.ok THEN CodecErr
             ELSE LET v == get_string(k.rest)
                  IN  IF ~v.ok THEN CodecErr
                      ELSE get_entries(v.rest, n - 1,
                               [x \in DOMAIN m \cup {k.val} |->
                                   IF x = k.val THEN v.val ELSE m[x]])

encode_header_op(op) ==
    IF op.op = "Set" THEN <<0>> \o put_string(op.name) \o put_string(op.value)
    ELSE IF op.op = "Add"
         THEN <<1>> \o put_string(op.name) \o put_string(op.value)
         ELSE <<2>> \o put_string(op.name)

decode_header_op(d) ==
    IF Len(d) < 1 THEN CodecErr
    ELSE LET name == get_string(drop_bytes(d, 1))
         IN  IF d[1] \in {0, 1}
             THEN IF ~name.ok THEN CodecErr
                  ELSE LET value == get_string(name.rest)
                       IN  IF ~value.ok THEN CodecErr
                           ELSE CodecOk([op |-> IF d[1] = 0 THEN "Set" ELSE "Add",
                                         name |-> name.val, value |-> value.val],
                                        value.rest)
             ELSE IF d[1] = 2
                  THEN IF ~name.ok THEN CodecErr
                       ELSE CodecOk([op |-> "Remove", name |-> name.val],
                                    name.rest)
                  ELSE CodecErr

RECURSIVE encode_header_ops(_)
encode_header_ops(ops) ==
    IF ops = <<>> THEN <<>>
    ELSE encode_header_op(Head(ops)) \o encode_header_ops(Tail(ops))

RECURSIVE decode_header_ops(_, _, _)
decode_header_ops(d, n, acc) ==
    IF n = 0 THEN CodecOk(acc, d)
    ELSE LET op == decode_header_op(d)
         IN  IF ~op.ok THEN CodecErr
             ELSE decode_header_ops(op.rest, n - 1, Append(acc, op.val))

map_len(m) == Cardinality(DOMAIN m)

\* BinaryAgentResponse::encode, the match on the decision
encode_decision(dec) ==
    IF dec.type = "Allow" THEN <<0>>
    ELSE IF dec.type = "Block"
    THEN <<1>> \o put_u16(dec.status) \o put_optional_string(dec.body)
             \o put_u16(IF dec.headers = <<>> THEN 0
                        ELSE map_len(dec.headers[1]))
             \o (IF dec.headers = <<>> THEN <<>>
                 ELSE put_entries(dec.headers[1]))
    ELSE IF dec.type = "Redirect"
    THEN <<2>> \o put_string(dec.url) \o put_u16(dec.status)
    ELSE <<3>> \o put_string(dec.challenge_type)
             \o put_u16(map_len(dec.params)) \o put_entries(dec.params)

\* BinaryAgentResponse::decode, the match on decision_type
decode_decision(d) ==
    IF Len(d) < 1 THEN CodecErr
    ELSE LET t == d[1]
             r == drop_bytes(d, 1)
         IN
         IF t = 0 THEN CodecOk([type |-> "Allow"], r)
         ELSE IF t = 1
         THEN IF Len(r) < 2 THEN CodecErr
              ELSE LET body == get_optional_string(drop_bytes(r, 2))
                   IN  IF ~body.ok THEN CodecErr
                       ELSE IF Len(body.rest) < 2 THEN CodecErr
                       ELSE LET h_count == get_u16(body.rest)
                                h == get_entries(drop_bytes(body.rest, 2),
                                                 h_count, NoMap)
                            IN  IF ~h.ok THEN CodecErr
                                ELSE CodecOk(
                                       [type |-> "Block",
                                        status |-> get_u16(r),
                                        body |-> body.val,
                                        headers |-> IF h_count > 0
                                                    THEN <<h.val>> ELSE <<>>],
                                       h.rest)
         ELSE IF t = 2
         THEN LET url == get_string(r)
              IN  IF ~url.ok THEN CodecErr
                  ELSE IF Len(url.rest) < 2 THEN CodecErr
                  ELSE CodecOk([type |-> "Redirect", url |-> url.val,
                                status |-> get_u16(url.rest)],
                               drop_bytes(url.rest, 2))
         ELSE IF t = 3
         THEN LET ct == get_string(r)
              IN  IF ~ct.ok THEN CodecErr
                  ELSE IF Len(ct.rest) < 2 THEN CodecErr
                  ELSE LET p == get_entries(drop_bytes(ct.rest, 2),
                                            get_u16(ct.rest), NoMap)
                       IN  IF ~p.ok THEN CodecErr
                           ELSE CodecOk([type |-> "Challenge",
                                         challenge_type |-> ct.val,
                                         params |-> p.val], p.rest)
         ELSE CodecErr

\* BinaryAgentResponse::encode
response_encode(m) ==
    put_string(m.correlation_id)
        \o encode_decision(m.decision)
        \o put_u16(Len(m.request_headers))
        \o encode_header_ops(m.request_headers)
        \o put_u16(Len(m.response_headers))
        \o encode_header_ops(m.response_headers)
        \o <<IF m.needs_more THEN 1 ELSE 0>>

\* BinaryAgentResponse::decode
response_decode(d) ==
    LET cid == get_string(d)
    IN  IF ~cid.ok THEN CodecErr
        ELSE LET dec == decode_decision(cid.rest)
        IN  IF ~dec.ok THEN CodecErr
        ELSE IF Len(dec.rest) < 2 THEN CodecErr
        ELSE LET req == decode_header_ops(drop_bytes(dec.rest, 2),
                                          get_u16(dec.rest), <<>>)
        IN  IF ~req.ok THEN CodecErr
        ELSE IF Len(req.rest) < 2 THEN CodecErr
        ELSE LET resp == decode_header_ops(drop_bytes(req.rest, 2),
                                           get_u16(req.rest), <<>>)
        IN  IF ~resp.ok THEN CodecErr
        ELSE IF Len(resp.rest) < 1 THEN CodecErr
        ELSE [ok |-> TRUE,
              val |-> [kind |-> "BinaryAgentResponse",
                       correlation_id |-> cid.val,
                       decision |-> dec.val,
                       request_headers |-> req.val,
                       response_headers |-> resp.val,
                       needs_more |-> resp.rest[1] # 0]]

\* BinaryFrame::encode: the length field, the type byte, the payload (the
\* payload lengths drawn are far below u32::MAX, the cast keeps the sum)
frame_encode(f) ==
    [ok |-> TRUE,
     val |-> [total_len |-> 1 + f.payload_len, type |-> f.msg_type,
              payload_len |-> f.payload_len]]

\* write_message: as BinaryFrame::encode, after the size check
write_message(f) ==
    IF f.payload_len > MAX_UDS_MESSAGE_SIZE THEN CodecErr
    ELSE [ok |-> TRUE,
          val |-> [total_len |-> f.payload_len + 1,
                   type |-> f.msg_type, payload_len |-> f.payload_len]]

\* BinaryFrame::decode and read_message, which differ in the limit: the
\* length is checked, the type byte converted, total_len - 1 bytes read
frame_decode(w, kind, max) ==
    IF w.total_len = 0 THEN CodecErr
    ELSE IF w.total_len > max THEN CodecErr
    ELSE IF w.type \notin MessageTypeBytes THEN CodecErr
    ELSE IF w.payload_len < w.total_len - 1 THEN CodecErr
    ELSE [ok |-> TRUE,
          val |-> [kind |-> kind, msg_type |-> w.type,
                   payload_len |-> w.total_len - 1]]

CodecIdle == [kind |-> "none"]

CodecInit ==
    /\ cd_pc = "idle"
    /\ cd_msg = CodecIdle
    /\ cd_wire = <<>>
    /\ cd_out = CodecErr

\* a BinaryAgentResponse is encoded
EncodeResponse ==
    /\ cd_pc = "idle"
    /\ \E m \in BinaryAgentResponses :
         /\ cd_msg' = m
         /\ cd_wire' = response_encode(m)
    /\ cd_pc' = "encoded"
    /\ UNCHANGED cd_out
    /\ UNCHANGED <<cbVars, storeVars, udsVars, drainVars, clVars, poolVars, headerVars, accessorVars, fpeVars, engineVars, cbxVars, v1Vars, serverVars, bufferVars>>

\* a frame is encoded by BinaryFrame::encode or written by write_message;
\* nothing is written when write_message refuses the payload
EncodeFrame ==
    /\ cd_pc = "idle"
    /\ \E f \in Frames :
         LET w == IF f.kind = "UdsMessage" THEN write_message(f)
                  ELSE frame_encode(f)
         IN  /\ w.ok
             /\ cd_msg' = f
             /\ cd_wire' = w.val
    /\ cd_pc' = "encoded"
    /\ UNCHANGED cd_out
    /\ UNCHANGED <<cbVars, storeVars, udsVars, drainVars, clVars, poolVars, headerVars, accessorVars, fpeVars, engineVars, cbxVars, v1Vars, serverVars, bufferVars>>

\* the bytes are decoded by the decoder of their kind
Decode ==
    /\ cd_pc = "encoded"
    /\ cd_out' =
         IF cd_msg.kind = "BinaryAgentResponse" THEN response_decode(cd_wire)
         ELSE IF cd_msg.kind = "BinaryFrame"
         THEN frame_decode(cd_wire, "BinaryFrame", MAX_BINARY_MESSAGE_SIZE)
         ELSE frame_decode(cd_wire, "UdsMessage", MAX_UDS_MESSAGE_SIZE)
    /\ cd_pc' = "decoded"
    /\ UNCHANGED <<cd_msg, cd_wire>>
    /\ UNCHANGED <<cbVars, storeVars, udsVars, drainVars, clVars, poolVars, headerVars, accessorVars, fpeVars, engineVars, cbxVars, v1Vars, serverVars, bufferVars>>

\* the next message
CodecReset ==
    /\ cd_pc = "decoded"
    /\ cd_pc' = "idle"
    /\ cd_msg' = CodecIdle
    /\ cd_wire' = <<>>
    /\ cd_out' = CodecErr
    /\ UNCHANGED <<cbVars, storeVars, udsVars, drainVars, clVars, poolVars, headerVars, accessorVars, fpeVars, engineVars, cbxVars, v1Vars, serverVars, bufferVars>>

CodecNext ==
    \/ EncodeResponse
    \/ EncodeFrame
    \/ Decode
    \/ CodecReset

\* C27: framing round-trip: decoding what the encoder produced succeeds and
\* yields the message that was encoded, for frames and for records.
C27_RoundTrip ==
    cd_pc = "decoded" => (cd_out.ok /\ cd_out.val = cd_msg)

\* ------------------------------------------------------------------------
\* Copy-on-write headers (crates/agent-protocol/src/headers.rs): HeadersCow
\* over HashMap<String, Vec<String>>.  Names and values are byte strings;
\* the map is a function whose domain is the set of keys present.
\* ------------------------------------------------------------------------
MaxValues == 2

\* "a", "A" and "b": two names that differ only in letter case, and a third
HeaderNames == <<(<<97>>), (<<65>>), (<<98>>)>>
HeaderNameSet == {HeaderNames[i] : i \in 1..Len(HeaderNames)}
HeaderValues == {<<118>>, <<119>>}

EmptyHeaders == [k \in {} |-> <<>>]

\* u8::to_ascii_lowercase, the comparison the header invariant is stated in
to_ascii_lowercase(b) == IF b >= 65 /\ b <= 90 THEN b + 32 ELSE b
eq_ignore_ascii_case(x, y) ==
    /\ Len(x) = Len(y)
    /\ \A i \in 1..Len(x) : to_ascii_lowercase(x[i]) = to_ascii_lowercase(y[i])

\* HashMap::insert(name, vec![value])
headers_set(h, name, value) ==
    [k \in DOMAIN h \cup {name} |-> IF k = name THEN <<value>> ELSE h[k]]

\* HashMap::entry(name).or_default().push(value)
headers_add(h, name, value) ==
    [k \in DOMAIN h \cup {name} |->
        IF k = name
        THEN (IF name \in DOMAIN h THEN h[name] ELSE <<>>) \o <<value>>
        ELSE h[k]]

\* HashMap::remove(name)
headers_remove(h, name) == [k \in DOMAIN h \ {name} |-> h[k]]

\* HashMap::get(name)
headers_get(h, name) == IF name \in DOMAIN h THEN <<h[name]>> ELSE <<>>

\* the values the map holds for a header, names compared without case: the
\* values of every key that names it, keys taken in the order of HeaderNames
RECURSIVE values_of(_, _, _)
values_of(h, name, i) ==
    IF i > Len(HeaderNames) THEN <<>>
    ELSE LET k == HeaderNames[i]
         IN  (IF k \in DOMAIN h /\ eq_ignore_ascii_case(k, name)
              THEN h[k] ELSE <<>>) \o values_of(h, name, i + 1)

NoHeaderOp == [op |-> "none"]

HeaderInit ==
    /\ hd_inner = EmptyHeaders
    /\ hd_owned \in BOOLEAN
    /\ hd_last = NoHeaderOp

\* HeadersCow::set
HeaderSet ==
    /\ \E name \in HeaderNameSet, value \in HeaderValues :
         /\ hd_inner' = headers_set(hd_inner, name, value)
         /\ hd_last' = [op |-> "Set", name |-> name, value |-> value,
                        before |-> hd_inner]
    /\ hd_owned' = TRUE
    /\ UNCHANGED <<cbVars, storeVars, udsVars, drainVars, clVars, poolVars, codecVars, accessorVars, fpeVars, engineVars, cbxVars, v1Vars, serverVars, bufferVars>>

\* HeadersCow::add
HeaderAdd ==
    /\ \E name \in HeaderNameSet, value \in HeaderValues :
         /\ Len(values_of(hd_inner, name, 1)) < MaxValues
         /\ hd_inner' = headers_add(hd_inner, name, value)
         /\ hd_last' = [op |-> "Add", name |-> name, value |-> value,
                        before |-> hd_inner]
    /\ hd_owned' = TRUE
    /\ UNCHANGED <<cbVars, storeVars, udsVars, drainVars, clVars, poolVars, codecVars, accessorVars, fpeVars, engineVars, cbxVars, v1Vars, serverVars, bufferVars>>

\* HeadersCow::remove
HeaderRemove ==
    /\ \E name \in HeaderNameSet :
         /\ hd_inner' = headers_remove(hd_inner, name)
         /\ hd_last' = [op |-> "Remove", name |-> name,
                        removed |-> headers_get(hd_inner, name),
                        before |-> hd_inner]
    /\ hd_owned' = TRUE
    /\ UNCHANGED <<cbVars, storeVars, udsVars, drainVars, clVars, poolVars, codecVars, accessorVars, fpeVars, engineVars, cbxVars, v1Vars, serverVars, bufferVars>>

HeaderNext ==
    \/ HeaderSet
    \/ HeaderAdd
    \/ HeaderRemove

\* C28: after any sequence of operations, Set(name, v) leaves exactly the
\* single value v for name, Add(name, v) appends v after the values name
\* had, and Remove(name) leaves no value for name, where names that differ
\* only in letter case are the same header.
C28_HeaderOps ==
    /\ hd_last.op = "Set" =>
          values_of(hd_inner, hd_last.name, 1) = <<hd_last.value>>
    /\ hd_last.op = "Add" =>
          values_of(hd_inner, hd_last.name, 1)
              = values_of(hd_last.before, hd_last.name, 1) \o <<hd_last.value>>
    /\ hd_last.op = "Remove" =>
          values_of(hd_inner, hd_last.name, 1) = <<>>

\* ------------------------------------------------------------------------
\* Field accessors of the data-masking agent (parsers/json.rs, parsers/form.rs).
\* A serde_json Value is a record tagged by its variant; an object is a
\* function from the keys present to values, an array a sequence.  A path
\* is given as the segments parse_path_segments returns for it.
\* ------------------------------------------------------------------------
MaxArrayLen == 1

AcKeys == {"a", "b"}
JsonString(x) == [t |-> "String", s |-> x]
JsonNull == [t |-> "Null"]
JsonObject(m) == [t |-> "Object", m |-> m]
JsonArray(a) == [t |-> "Array", a |-> a]

\* the maps over some of the keys with values in V
MapsOver(V) == UNION {[D -> V] : D \in SUBSET AcKeys}
\* the sequences of at most MaxArrayLen values in V
SeqsOver(V) == UNION {[1..n -> V] : n \in 0..MaxArrayLen}

JsonLeaves == {JsonString("x"), JsonNull}
JsonInner ==
    JsonLeaves \cup {JsonObject(m) : m \in MapsOver(JsonLeaves)}
               \cup {JsonArray(a) : a \in SeqsOver(JsonLeaves)}
JsonDocs ==
    JsonLeaves \cup {JsonObject(m) : m \in MapsOver(JsonInner)}
               \cup {JsonArray(a) : a \in SeqsOver(JsonInner)}
FormDocs == {[t |-> "Form", fields |-> m] : m \in MapsOver({"x"})}

\* enum PathSegment
PathSegment ==
    [seg : {"Key"}, key : AcKeys] \cup [seg : {"Index"}, idx : 0..MaxArrayLen]
Paths ==
    {<<>>} \cup {<<x>> : x \in PathSegment}
           \cup {<<x, y>> : x, y \in PathSegment}

FieldAccess == [ok |-> FALSE, err |-> "FieldAccess"]
AcOk(v) == [ok |-> TRUE, val |-> v]

\* Value::get / Value::get_mut with a key or an index: is there a child
has_child(v, seg) ==
    IF seg.seg = "Key"
    THEN v.t = "Object" /\ seg.key \in DOMAIN v.m
    ELSE v.t = "Array" /\ seg.idx < Len(v.a)
child(v, seg) == IF seg.seg = "Key" THEN v.m[seg.key] ELSE v.a[seg.idx + 1]
with_child(v, seg, c) ==
    IF seg.seg = "Key"
    THEN JsonObject([v.m EXCEPT ![seg.key] = c])
    ELSE JsonArray([v.a EXCEPT ![seg.idx + 1] = c])

\* the last segment of set_json_value, applied to the parent
set_leaf(cur, seg, new_value) ==
    IF seg.seg = "Key"
    THEN IF cur.t = "Object"
         THEN AcOk(JsonObject([k \in DOMAIN cur.m \cup {seg.key} |->
                                 IF k = seg.key THEN new_value ELSE cur.m[k]]))
         ELSE FieldAccess
    ELSE IF cur.t = "Array"
         THEN IF seg.idx < Len(cur.a)
              THEN AcOk(JsonArray([cur.a EXCEPT ![seg.idx + 1] = new_value]))
              ELSE FieldAccess
         ELSE FieldAccess

\* the navigation of set_json_value to the parent, then the assignment
RECURSIVE set_in(_, _, _)
set_in(cur, segments, new_value) ==
    IF Len(segments) = 1 THEN set_leaf(cur, segments[1], new_value)
    ELSE IF ~has_child(cur, Head(segments)) THEN FieldAccess
    ELSE LET r == set_in(child(cur, Head(segments)), Tail(segments), new_value)
         IN  IF r.ok THEN AcOk(with_child(cur, Head(segments), r.val)) ELSE r

set_json_value(root, segments, new_value) ==
    IF segments = <<>> THEN FieldAccess
    ELSE set_in(root, segments, new_value)

\* FormAccessor::set: HashMap::insert
form_set(doc, path, value) ==
    AcOk([t |-> "Form",
          fields |-> [k \in DOMAIN doc.fields \cup {path} |->
                        IF k = path THEN value ELSE doc.fields[k]]])

\* the path leads to a value of the document (the navigation of get)
RECURSIVE json_exists(_, _)
json_exists(v, segments) ==
    IF segments = <<>> THEN TRUE
    ELSE /\ has_child(v, Head(segments))
         /\ json_exists(child(v, Head(segments)), Tail(segments))

NoSet == [op |-> "none"]

AccessorInit ==
    /\ ac_doc \in JsonDocs \cup FormDocs
    /\ ac_last = NoSet

\* JsonAccessor::set
JsonSet ==
    /\ ac_doc.t # "Form"
    /\ \E path \in Paths :
         LET r == set_json_value(ac_doc, path, JsonString("y"))
         IN  /\ ac_doc' = IF r.ok THEN r.val ELSE ac_doc
             /\ ac_last' = [op |-> "set", path |-> path, before |-> ac_doc,
                            existed |-> json_exists(ac_doc, path),
                            result |-> IF r.ok THEN "Ok" ELSE r.err]
    /\ UNCHANGED <<cbVars, storeVars, udsVars, drainVars, clVars, poolVars, codecVars, headerVars, fpeVars, engineVars, cbxVars, v1Vars, serverVars, bufferVars>>

\* FormAccessor::set
FormSet ==
    /\ ac_doc.t = "Form"
    /\ \E path \in AcKeys :
         LET r == form_set(ac_doc, path, "y")
         IN  /\ ac_doc' = r.val
             /\ ac_last' = [op |-> "set", path |-> path, before |-> ac_doc,
                            existed |-> path \in DOMAIN ac_doc.fields,
                            result |-> "Ok"]
    /\ UNCHANGED <<cbVars, storeVars, udsVars, drainVars, clVars, poolVars, codecVars, headerVars, fpeVars, engineVars, cbxVars, v1Vars, serverVars, bufferVars>>

AccessorNext ==
    \/ JsonSet
    \/ FormSet

\* C29: set on a path that does not exist in the document fails with
\* FieldAccess and leaves the document unchanged: set never creates a key
\* or an element.
C29_SetMissingFails ==
    (ac_last.op = "set" /\ ~ac_last.existed)
        => (ac_last.result = "FieldAccess" /\ ac_doc = ac_last.before)

\* ------------------------------------------------------------------------
\* Format-preserving encryption (agents/data-masking/src/masking/fpe.rs).
\* Strings are sequences of code points.  The round key is SHA-256 and AES
\* over (key, tweak, round, right half, radix); here it is a fixed
\* arithmetic mix of the same arguments, one function per key.
\* ------------------------------------------------------------------------
MaxInputLen == 3

\* FpeAlphabet::Digits.chars(): "0123456789"
DigitsChars == [i \in 1..10 |-> 47 + i]
\* the characters inputs are made of: '0', '1', '9' and '-'
InputChars == {48, 49, 57, 45}
FpeInputs == UNION {[1..n -> InputChars] : n \in 0..MaxInputLen}
FpeKeys == {0, 1}
ROUNDS == 10
ROUND_KEY_LEN == 16

\* chars.contains(&c)
contains(chars, c) == \E i \in 1..Len(chars) : chars[i] = c
\* chars.iter().position(|&ch| ch == c), from 0
position(chars, c) == (CHOOSE i \in 1..Len(chars) : chars[i] = c) - 1

\* input.chars().filter(|c| chars.contains(c)).collect()
RECURSIVE filter_alphabet(_, _)
filter_alphabet(input, chars) ==
    IF input = <<>> THEN <<>>
    ELSE (IF contains(chars, Head(input)) THEN <<Head(input)>> ELSE <<>>)
             \o filter_alphabet(Tail(input), chars)

\* input.chars().filter_map(|c| chars.iter().position(..)).collect()
RECURSIVE to_indices(_, _)
to_indices(input, chars) ==
    IF input = <<>> THEN <<>>
    ELSE (IF contains(chars, Head(input))
          THEN <<position(chars, Head(input))>> ELSE <<>>)
             \o to_indices(Tail(input), chars)

RECURSIVE sum_of(_)
sum_of(q) == IF q = <<>> THEN 0 ELSE Head(q) + sum_of(Tail(q))

\* generate_round_key: 16 bytes determined by key, round, data and radix
generate_round_key(key, round, data, radix) ==
    [i \in 1..ROUND_KEY_LEN |->
        (97 * key + 31 * round + 7 * sum_of(data) + 13 * i + radix) % 256]

\* mutant of feistel_round: the halves are swapped after every round of an
\* encryption, the last one included
feistel_round_swap_last(key, indices, round, radix, encrypt) ==
    LET n == Len(indices)
        half == n \div 2
        left == SubSeq(indices, 1, half)
        right == SubSeq(indices, half + 1, n)
        round_key == generate_round_key(key, round, right, radix)
        f(i) == round_key[((i - 1) % ROUND_KEY_LEN) + 1]
        left1 == [i \in 1..half |->
                    IF encrypt THEN (left[i] + f(i)) % radix
                    ELSE (left[i] + radix - (f(i) % radix)) % radix]
        swap == encrypt \/ (~encrypt /\ round > 0)
    IN  IF swap
        THEN SubSeq(right, 1, half) \o left1 \o SubSeq(right, half + 1, n - half)
        ELSE left1 \o right

\* one round of the Feistel network on the indices
feistel_round(key, indices, round, radix, encrypt) ==
    LET n == Len(indices)
        half == n \div 2
        left == SubSeq(indices, 1, half)
        right == SubSeq(indices, half + 1, n)
        round_key == generate_round_key(key, round, right, radix)
        f(i) == round_key[((i - 1) % ROUND_KEY_LEN) + 1]
        left1 == [i \in 1..half |->
                    IF encrypt THEN (left[i] + f(i)) % radix
                    ELSE (left[i] + radix - (f(i) % radix)) % radix]
        swap == (encrypt /\ round < ROUNDS - 1) \/ (~encrypt /\ round > 0)
    IN  IF swap
        THEN SubSeq(right, 1, half) \o left1 \o SubSeq(right, half + 1, n - half)
        ELSE left1 \o right

\* the rounds, 0..9 to encrypt and 9..0 to decrypt; k counts the rounds done
RECURSIVE feistel(_, _, _, _, _)
feistel(key, indices, k, radix, encrypt) ==
    IF k = ROUNDS THEN indices
    ELSE feistel(key,
                 feistel_round(key, indices,
                               IF encrypt THEN k ELSE ROUNDS - 1 - k,
                               radix, encrypt),
                 k + 1, radix, encrypt)

\* the reconstruction of transform_with_preservation: alphabet characters
\* take the next transformed character, the others stay
RECURSIVE reconstruct(_, _, _)
reconstruct(input, chars, transformed) ==
    IF input = <<>> THEN <<>>
    ELSE IF contains(chars, Head(input))
    THEN <<IF transformed = <<>> THEN Head(input) ELSE Head(transformed)>>
             \o reconstruct(Tail(input), chars,
                            IF transformed = <<>> THEN <<>>
                            ELSE Tail(transformed))
    ELSE <<Head(input)>> \o reconstruct(Tail(input), chars, transformed)

RECURSIVE transform(_, _, _, _)
RECURSIVE transform_with_preservation(_, _, _, _)
\* FpeCipher::transform
transform(key, input, chars, encrypt) ==
    LET radix == Len(chars)
        indices == to_indices(input, chars)
    IN  IF Len(indices) # Len(filter_alphabet(input, chars))
        THEN transform_with_preservation(key, input, chars, encrypt)
        ELSE IF indices = <<>> THEN input
        ELSE LET out == feistel(key, indices, 0, radix, encrypt)
             IN  [i \in 1..Len(out) |-> chars[out[i] + 1]]

\* FpeCipher::transform_with_preservation
transform_with_preservation(key, input, chars, encrypt) ==
    LET alphabet_chars == filter_alphabet(input, chars)
    IN  IF alphabet_chars = <<>> THEN input
        ELSE reconstruct(input, chars,
                         transform(key, alphabet_chars, chars, encrypt))

FpeIdle == <<>>

FpeInit ==
    /\ fp_key \in FpeKeys
    /\ fp_pc = "idle"
    /\ fp_in = FpeIdle
    /\ fp_out = FpeIdle

\* FpeCipher::encrypt
FpeEncrypt ==
    /\ fp_pc = "idle"
    /\ \E plaintext \in FpeInputs :
         /\ fp_in' = plaintext
         /\ fp_out' = transform(fp_key, plaintext, DigitsChars, TRUE)
    /\ fp_pc' = "encrypted"
    /\ UNCHANGED fp_key
    /\ UNCHANGED <<cbVars, storeVars, udsVars, drainVars, clVars, poolVars, codecVars, headerVars, accessorVars, engineVars, cbxVars, v1Vars, serverVars, bufferVars>>

\* FpeCipher::decrypt of what encrypt returned; fp_in stays the plaintext
FpeDecrypt ==
    /\ fp_pc = "encrypted"
    /\ UNCHANGED fp_in
    /\ fp_out' = transform(fp_key, fp_out, DigitsChars, FALSE)
    /\ fp_pc' = "decrypted"
    /\ UNCHANGED fp_key
    /\ UNCHANGED <<cbVars, storeVars, udsVars, drainVars, clVars, poolVars, codecVars, headerVars, accessorVars, engineVars, cbxVars, v1Vars, serverVars, bufferVars>>

\* the next value
FpeReset ==
    /\ fp_pc # "idle"
    /\ fp_pc' = "idle"
    /\ fp_in' = FpeIdle
    /\ fp_out' = FpeIdle
    /\ UNCHANGED fp_key
    /\ UNCHANGED <<cbVars, storeVars, udsVars, drainVars, clVars, poolVars, codecVars, headerVars, accessorVars, engineVars, cbxVars, v1Vars, serverVars, bufferVars>>

FpeNext ==
    \/ FpeEncrypt
    \/ FpeDecrypt
    \/ FpeReset

\* C30: for every input, encrypt returns a string of the same length in
\* which every character outside the alphabet is unchanged and in its
\* place, and every other position holds a character of the alphabet.
C30_FormatPreserved ==
    fp_pc = "encrypted" =>
        /\ Len(fp_out) = Len(fp_in)
        /\ \A i \in 1..Len(fp_in) :
              /\ i <= Len(fp_out)
              /\ IF contains(DigitsChars, fp_in[i])
                 THEN contains(DigitsChars, fp_out[i])
                 ELSE fp_out[i] = fp_in[i]

\* ------------------------------------------------------------------------
\* Masking engine (agents/data-masking/src/masking/engine.rs) with pattern
\* detection (masking/patterns.rs).  A body is a map from path to string
\* value; strings are sequences of code points.  The configuration has one
\* field rule, on path "ssn", with direction Both; the built-in patterns
\* ssn and phone are toggles, credit_card and email are off and there are
\* no custom patterns.
\* ------------------------------------------------------------------------
\* "123-45-6789", "123456789", "abc"
SsnDashed == <<49, 50, 51, 45, 52, 53, 45, 54, 55, 56, 57>>
SsnDigits == <<49, 50, 51, 52, 53, 54, 55, 56, 57>>
PlainText == <<97, 98, 99>>
\* two version-4 UUIDs: "11111111-1111-4111-8111-111111111111" and
\* "aaaaaaaa-aaaa-4aaa-8aaa-aaaaaaaaaaaa"
Uuid(c) ==
    [i \in 1..36 |->
        IF i \in {9, 14, 19, 24} THEN 45
        ELSE IF i = 15 THEN 52 ELSE IF i = 20 THEN 56 ELSE c]
Uuids == {Uuid(49), Uuid(97)}

EnPaths == {"ssn", "note"}
EnBodies == [EnPaths -> {SsnDashed, SsnDigits, PlainText}]
EnConfigs ==
    [action : {"Tokenize", "Fpe"}, ssn : BOOLEAN, phone : BOOLEAN, key : {0}]

\* \d, \w and \b of the regex crate
is_digit(c) == c >= 48 /\ c <= 57
is_word(c) ==
    is_digit(c) \/ (c >= 97 /\ c <= 122) \/ (c >= 65 /\ c <= 90) \/ c = 95
word_at(v, i) == i >= 1 /\ i <= Len(v) /\ is_word(v[i])
boundary(v, i) == word_at(v, i) # word_at(v, i + 1)
digits_at(v, i, n) ==
    i + n - 1 <= Len(v) /\ \A k \in i..(i + n - 1) : is_digit(v[k])
char_at(v, i, c) == i <= Len(v) /\ v[i] = c
sep_at(v, i) == i <= Len(v) /\ v[i] \in {45, 46, 32}

\* is_ssn: \b\d{3}-\d{2}-\d{4}\b|\b\d{9}\b, found anywhere in the value
is_ssn(v) ==
    \E i \in 1..Len(v) :
        \/ /\ boundary(v, i - 1) /\ digits_at(v, i, 3) /\ char_at(v, i + 3, 45)
           /\ digits_at(v, i + 4, 2) /\ char_at(v, i + 6, 45)
           /\ digits_at(v, i + 7, 4) /\ boundary(v, i + 10)
        \/ boundary(v, i - 1) /\ digits_at(v, i, 9) /\ boundary(v, i + 8)

\* is_phone: [0-9]{3}[-. ]?[0-9]{3}[-. ]?[0-9]{4}, found anywhere in the
\* value (the optional +1 prefix and the parenthesised area code add no
\* match over these characters)
is_phone(v) ==
    \E i \in 1..Len(v), s1, s2 \in {0, 1} :
        /\ digits_at(v, i, 3)
        /\ s1 = 1 => sep_at(v, i + 3)
        /\ digits_at(v, i + 3 + s1, 3)
        /\ s2 = 1 => sep_at(v, i + 6 + s1)
        /\ digits_at(v, i + 6 + s1 + s2, 4)

\* DEFAULT_SSN_ACTION and DEFAULT_PHONE_ACTION: Mask with '*', 0 and 4
DefaultMask == [char |-> 42, preserve_start |-> 0, preserve_end |-> 4]
NoAction == [char |-> 0, preserve_start |-> 0, preserve_end |-> 0]

\* CompiledPatterns::detect
detect(cfg, v) ==
    IF cfg.ssn /\ is_ssn(v) THEN DefaultMask
    ELSE IF cfg.phone /\ is_phone(v) THEN DefaultMask
    ELSE NoAction

\* apply_char_mask
apply_char_mask(v, a) ==
    IF a.preserve_start + a.preserve_end >= Len(v) THEN v
    ELSE [i \in 1..Len(v) |->
            IF i - 1 < a.preserve_start \/ i - 1 >= Len(v) - a.preserve_end
            THEN v[i] ELSE a.char]

\* the tokens store.tokenize may return for an original: the one it holds
\* for it, else a fresh UUID
tokens_for(store, original) ==
    IF \E t \in DOMAIN store : store[t] = original
    THEN {t \in DOMAIN store : store[t] = original}
    ELSE Uuids \ DOMAIN store

store_with(store, t, original) ==
    [k \in DOMAIN store \cup {t} |-> IF k = t THEN original ELSE store[k]]

\* the pattern pass of process_body over all_values()
pattern_pass(cfg, body) ==
    [p \in EnPaths |->
        IF detect(cfg, body[p]) # NoAction
        THEN apply_char_mask(body[p], detect(cfg, body[p]))
        ELSE body[p]]

EnNoHist == [request |-> <<>>, written |-> <<>>, result |-> "none"]

EngineInit ==
    /\ en_cfg \in EnConfigs
    /\ en_pc = "idle"
    /\ en_body = <<>>
    /\ en_store = <<>>
    /\ en_hist = EnNoHist

\* mask_request_body: the field rule, then pattern detection, on one body
EngineMask ==
    /\ en_pc = "idle"
    /\ \E body \in EnBodies :
         \E processed \in
               IF en_cfg.action = "Tokenize"
               THEN tokens_for(en_store, body["ssn"])
               ELSE {transform(en_cfg.key, body["ssn"], DigitsChars, TRUE)} :
            /\ en_store' = IF en_cfg.action = "Tokenize"
                           THEN store_with(en_store, processed, body["ssn"])
                           ELSE en_store
            /\ en_body' = pattern_pass(en_cfg,
                                       [body EXCEPT !["ssn"] = processed])
            /\ en_hist' = [request |-> body, written |-> processed,
                           result |-> "Ok"]
    /\ en_pc' = "masked"
    /\ UNCHANGED en_cfg
    /\ UNCHANGED <<cbVars, storeVars, udsVars, drainVars, clVars, poolVars, codecVars, headerVars, accessorVars, fpeVars, cbxVars, v1Vars, serverVars, bufferVars>>

\* unmask_response_body on the masked body, under the same correlation
EngineUnmask ==
    /\ en_pc = "masked"
    /\ IF en_cfg.action = "Tokenize"
       THEN IF en_body["ssn"] \in DOMAIN en_store
            THEN /\ en_body' = [en_body EXCEPT !["ssn"] = en_store[en_body["ssn"]]]
                 /\ en_hist' = [en_hist EXCEPT !.result = "Ok"]
            ELSE /\ en_body' = en_body
                 /\ en_hist' = [en_hist EXCEPT !.result = "TokenNotFound"]
       ELSE /\ en_body' = [en_body EXCEPT !["ssn"] =
                              transform(en_cfg.key, en_body["ssn"],
                                        DigitsChars, FALSE)]
            /\ en_hist' = [en_hist EXCEPT !.result = "Ok"]
    /\ en_pc' = "unmasked"
    /\ UNCHANGED <<en_cfg, en_store>>
    /\ UNCHANGED <<cbVars, storeVars, udsVars, drainVars, clVars, poolVars, codecVars, headerVars, accessorVars, fpeVars, cbxVars, v1Vars, serverVars, bufferVars>>

\* the exchange ends: store.cleanup(correlation_id)
EngineEnd ==
    /\ en_pc = "unmasked"
    /\ en_pc' = "idle"
    /\ en_body' = <<>>
    /\ en_store' = <<>>
    /\ en_hist' = EnNoHist
    /\ UNCHANGED en_cfg
    /\ UNCHANGED <<cbVars, storeVars, udsVars, drainVars, clVars, poolVars, codecVars, headerVars, accessorVars, fpeVars, cbxVars, v1Vars, serverVars, bufferVars>>

EngineNext ==
    \/ EngineMask
    \/ EngineUnmask
    \/ EngineEnd

\* C32: in a mask pass the value a Tokenize or Fpe field rule wrote is not
\* altered by pattern detection, so unmasking the masked body under the
\* same correlation restores the original value of the governed field.
C32_RuleValueKept ==
    /\ en_pc = "masked" => en_body["ssn"] = en_hist.written
    /\ en_pc = "unmasked" =>
          /\ en_hist.result = "Ok"
          /\ en_body["ssn"] = en_hist.request["ssn"]

\* ------------------------------------------------------------------------
\* Circuit breaker under concurrent callers (circuit_breaker.rs): every
\* atomic load, store, fetch_add and compare_exchange of is_closed,
\* record_success, record_failure and the three transition functions is a
\* step of its own.  Whether the open timeout has elapsed when is_closed
\* reads the clock is an input of the step.
\* ------------------------------------------------------------------------
CbThreads == {"t1", "t2"}

XbIdle == [pc |-> "idle", current |-> STATE_CLOSED, n |-> 0]
at(t, pc) == [xb_th EXCEPT ![t].pc = pc]
back(t) == [xb_th EXCEPT ![t] = XbIdle]

CbxInit ==
    /\ xb_cfg \in [failure_threshold : 1..MaxThreshold,
                    success_threshold : 1..MaxThreshold]
    /\ xb = [state |-> STATE_CLOSED, consecutive_failures |-> 0,
             consecutive_successes |-> 0, half_open_requests |-> 0]
    /\ xb_th = [t \in CbThreads |-> XbIdle]

\* is_closed: state.load, then the match on it
IcLoad ==
    \E t \in CbThreads :
        /\ xb_th[t].pc = "idle"
        /\ \/ xb.state = STATE_CLOSED /\ xb_th' = back(t)
           \/ xb.state = STATE_OPEN
                 /\ \E elapsed \in BOOLEAN :
                       xb_th' = IF elapsed THEN at(t, "ho_load") ELSE back(t)
           \/ xb.state = STATE_HALF_OPEN /\ xb_th' = at(t, "ic_add")
        /\ UNCHANGED xb
        /\ UNCHANGED xb_cfg
        /\ UNCHANGED <<cbVars, storeVars, udsVars, drainVars, clVars, poolVars, codecVars, headerVars, accessorVars, fpeVars, engineVars, v1Vars, serverVars, bufferVars>>

\* is_closed in HalfOpen: half_open_requests.fetch_add(1)
IcAdd ==
    \E t \in CbThreads :
        /\ xb_th[t].pc = "ic_add"
        /\ xb.half_open_requests < MaxCount
        /\ xb' = [xb EXCEPT !.half_open_requests = @ + 1]
        /\ xb_th' = back(t)
        /\ UNCHANGED xb_cfg
        /\ UNCHANGED <<cbVars, storeVars, udsVars, drainVars, clVars, poolVars, codecVars, headerVars, accessorVars, fpeVars, engineVars, v1Vars, serverVars, bufferVars>>

\* transition_to_half_open: state.load and the two early returns
HoLoad ==
    \E t \in CbThreads :
        /\ xb_th[t].pc = "ho_load"
        /\ xb_th' = IF xb.state = STATE_OPEN THEN at(t, "ho_cas") ELSE back(t)
        /\ UNCHANGED xb
        /\ UNCHANGED xb_cfg
        /\ UNCHANGED <<cbVars, storeVars, udsVars, drainVars, clVars, poolVars, codecVars, headerVars, accessorVars, fpeVars, engineVars, v1Vars, serverVars, bufferVars>>

\* transition_to_half_open: compare_exchange(Open, HalfOpen)
HoCas ==
    \E t \in CbThreads :
        /\ xb_th[t].pc = "ho_cas"
        /\ IF xb.state = STATE_OPEN
           THEN /\ xb' = [xb EXCEPT !.state = STATE_HALF_OPEN]
                /\ xb_th' = at(t, "ho_store")
           ELSE /\ xb_th' = back(t)
                /\ UNCHANGED xb
        /\ UNCHANGED xb_cfg
        /\ UNCHANGED <<cbVars, storeVars, udsVars, drainVars, clVars, poolVars, codecVars, headerVars, accessorVars, fpeVars, engineVars, v1Vars, serverVars, bufferVars>>

\* transition_to_half_open: half_open_requests.store(0)
HoStore ==
    \E t \in CbThreads :
        /\ xb_th[t].pc = "ho_store"
        /\ xb' = [xb EXCEPT !.half_open_requests = 0]
        /\ xb_th' = back(t)
        /\ UNCHANGED xb_cfg
        /\ UNCHANGED <<cbVars, storeVars, udsVars, drainVars, clVars, poolVars, codecVars, headerVars, accessorVars, fpeVars, engineVars, v1Vars, serverVars, bufferVars>>

\* record_success: consecutive_failures.store(0)
RsStore ==
    \E t \in CbThreads :
        /\ xb_th[t].pc = "idle"
        /\ xb' = [xb EXCEPT !.consecutive_failures = 0]
        /\ xb_th' = at(t, "rs_add")
        /\ UNCHANGED xb_cfg
        /\ UNCHANGED <<cbVars, storeVars, udsVars, drainVars, clVars, poolVars, codecVars, headerVars, accessorVars, fpeVars, engineVars, v1Vars, serverVars, bufferVars>>

\* record_success: consecutive_successes.fetch_add(1) + 1
RsAdd ==
    \E t \in CbThreads :
        /\ xb_th[t].pc = "rs_add"
        /\ xb.consecutive_successes < MaxCount
        /\ xb' = [xb EXCEPT !.consecutive_successes = @ + 1]
        /\ xb_th' = [xb_th EXCEPT ![t].pc = "rs_load",
                                  ![t].n = xb.consecutive_successes + 1]
        /\ UNCHANGED xb_cfg
        /\ UNCHANGED <<cbVars, storeVars, udsVars, drainVars, clVars, poolVars, codecVars, headerVars, accessorVars, fpeVars, engineVars, v1Vars, serverVars, bufferVars>>

\* record_success: state.load and the threshold test
RsLoad ==
    \E t \in CbThreads :
        /\ xb_th[t].pc = "rs_load"
        /\ xb_th' = IF xb.state = STATE_HALF_OPEN
                        /\ xb_th[t].n >= xb_cfg.success_threshold
                     THEN at(t, "tc_load") ELSE back(t)
        /\ UNCHANGED xb
        /\ UNCHANGED xb_cfg
        /\ UNCHANGED <<cbVars, storeVars, udsVars, drainVars, clVars, poolVars, codecVars, headerVars, accessorVars, fpeVars, engineVars, v1Vars, serverVars, bufferVars>>

\* transition_to_closed: state.load and the early return
TcLoad ==
    \E t \in CbThreads :
        /\ xb_th[t].pc = "tc_load"
        /\ xb_th' = IF xb.state = STATE_CLOSED THEN back(t)
                     ELSE [xb_th EXCEPT ![t].pc = "tc_cas",
                                        ![t].current = xb.state]
        /\ UNCHANGED xb
        /\ UNCHANGED xb_cfg
        /\ UNCHANGED <<cbVars, storeVars, udsVars, drainVars, clVars, poolVars, codecVars, headerVars, accessorVars, fpeVars, engineVars, v1Vars, serverVars, bufferVars>>

\* transition_to_closed: compare_exchange(current, Closed)
TcCas ==
    \E t \in CbThreads :
        /\ xb_th[t].pc = "tc_cas"
        /\ IF xb.state = xb_th[t].current
           THEN /\ xb' = [xb EXCEPT !.state = STATE_CLOSED]
                /\ xb_th' = at(t, "tc_store")
           ELSE /\ xb_th' = back(t)
                /\ UNCHANGED xb
        /\ UNCHANGED xb_cfg
        /\ UNCHANGED <<cbVars, storeVars, udsVars, drainVars, clVars, poolVars, codecVars, headerVars, accessorVars, fpeVars, engineVars, v1Vars, serverVars, bufferVars>>

\* transition_to_closed: the three counters are stored 0
TcStore ==
    \E t \in CbThreads :
        /\ xb_th[t].pc = "tc_store"
        /\ xb' = [xb EXCEPT !.consecutive_failures = 0,
                             !.consecutive_successes = 0,
                             !.half_open_requests = 0]
        /\ xb_th' = back(t)
        /\ UNCHANGED xb_cfg
        /\ UNCHANGED <<cbVars, storeVars, udsVars, drainVars, clVars, poolVars, codecVars, headerVars, accessorVars, fpeVars, engineVars, v1Vars, serverVars, bufferVars>>

\* record_failure: consecutive_successes.store(0)
RfStore ==
    \E t \in CbThreads :
        /\ xb_th[t].pc = "idle"
        /\ xb' = [xb EXCEPT !.consecutive_successes = 0]
        /\ xb_th' = at(t, "rf_add")
        /\ UNCHANGED xb_cfg
        /\ UNCHANGED <<cbVars, storeVars, udsVars, drainVars, clVars, poolVars, codecVars, headerVars, accessorVars, fpeVars, engineVars, v1Vars, serverVars, bufferVars>>

\* record_failure: consecutive_failures.fetch_add(1) + 1
RfAdd ==
    \E t \in CbThreads :
        /\ xb_th[t].pc = "rf_add"
        /\ xb.consecutive_failures < MaxCount
        /\ xb' = [xb EXCEPT !.consecutive_failures = @ + 1]
        /\ xb_th' = [xb_th EXCEPT ![t].pc = "rf_load",
                                  ![t].n = xb.consecutive_failures + 1]
        /\ UNCHANGED xb_cfg
        /\ UNCHANGED <<cbVars, storeVars, udsVars, drainVars, clVars, poolVars, codecVars, headerVars, accessorVars, fpeVars, engineVars, v1Vars, serverVars, bufferVars>>

\* record_failure: state.load and the match on it
RfLoad ==
    \E t \in CbThreads :
        /\ xb_th[t].pc = "rf_load"
        /\ xb_th' = IF (xb.state = STATE_CLOSED
                           /\ xb_th[t].n >= xb_cfg.failure_threshold)
                        \/ xb.state = STATE_HALF_OPEN
                     THEN at(t, "to_load") ELSE back(t)
        /\ UNCHANGED xb
        /\ UNCHANGED xb_cfg
        /\ UNCHANGED <<cbVars, storeVars, udsVars, drainVars, clVars, poolVars, codecVars, headerVars, accessorVars, fpeVars, engineVars, v1Vars, serverVars, bufferVars>>

\* transition_to_open: state.load and the early return
ToLoad ==
    \E t \in CbThreads :
        /\ xb_th[t].pc = "to_load"
        /\ xb_th' = IF xb.state = STATE_OPEN THEN back(t)
                     ELSE [xb_th EXCEPT ![t].pc = "to_cas",
                                        ![t].current = xb.state]
        /\ UNCHANGED xb
        /\ UNCHANGED xb_cfg
        /\ UNCHANGED <<cbVars, storeVars, udsVars, drainVars, clVars, poolVars, codecVars, headerVars, accessorVars, fpeVars, engineVars, v1Vars, serverVars, bufferVars>>

\* transition_to_open: compare_exchange(current, Open)
ToCas ==
    \E t \in CbThreads :
        /\ xb_th[t].pc = "to_cas"
        /\ IF xb.state = xb_th[t].current
           THEN xb' = [xb EXCEPT !.state = STATE_OPEN]
           ELSE UNCHANGED xb
        /\ xb_th' = back(t)
        /\ UNCHANGED xb_cfg
        /\ UNCHANGED <<cbVars, storeVars, udsVars, drainVars, clVars, poolVars, codecVars, headerVars, accessorVars, fpeVars, engineVars, v1Vars, serverVars, bufferVars>>

CbxNext ==
    \/ IcLoad
    \/ IcAdd
    \/ HoLoad
    \/ HoCas
    \/ HoStore
    \/ RsStore
    \/ RsAdd
    \/ RsLoad
    \/ TcLoad
    \/ TcCas
    \/ TcStore
    \/ RfStore
    \/ RfAdd
    \/ RfLoad
    \/ ToLoad
    \/ ToCas

\* the changes of state of the breaker's state machine
FsmEdges ==
    {<<STATE_CLOSED, STATE_OPEN>>, <<STATE_OPEN, STATE_HALF_OPEN>>,
     <<STATE_HALF_OPEN, STATE_CLOSED>>, <<STATE_HALF_OPEN, STATE_OPEN>>}

\* C33: in every interleaving of concurrent is_closed(), record_success()
\* and record_failure() calls (no reset()), each change of the breaker
\* state is Closed->Open, Open->HalfOpen, HalfOpen->Closed or
\* HalfOpen->Open: never Open->Closed, never Closed->HalfOpen.
C33_OnlyFsmEdges ==
    [][xb'.state # xb.state => <<xb.state, xb'.state>> \in FsmEdges]_vars

\* every character of the string belongs to the alphabet
in_alphabet(input, chars) == \A i \in 1..Len(input) : contains(chars, input[i])

\* C31: FPE round-trip: for an input whose characters all belong to the
\* alphabet (every length, odd lengths, length 1 and the empty string
\* included), encrypt returns a string of the same length and decrypting
\* it returns the input.
C31_RoundTrip ==
    in_alphabet(fp_in, DigitsChars) =>
        /\ fp_pc = "encrypted" => Len(fp_out) = Len(fp_in)
        /\ fp_pc = "decrypted" => fp_out = fp_in

\* an odd-length input of alphabet characters has been encrypted and
\* decrypted again
C31_Witness ==
    /\ fp_pc = "decrypted"
    /\ Len(fp_in) = 3
    /\ in_alphabet(fp_in, DigitsChars)
    /\ fp_in[1] # fp_in[2]

\* ------------------------------------------------------------------------
\* v1 agent client (crates/agent-protocol/src/client.rs)
\* ------------------------------------------------------------------------
PROTOCOL_VERSION == 1
MAX_MESSAGE_SIZE == 10485760
MaxV1Calls == 4

\* the sizes a serialized request can have: within the limit, and above it
RequestSizes == {1, MAX_MESSAGE_SIZE + 1}
\* the versions the agent's reply can carry
ReplyVersions == {PROTOCOL_VERSION, PROTOCOL_VERSION + 1}

V1NoReturn == [result |-> "none", event |-> 0, reply |-> 0]

\* AgentClient::unix_socket: a connected stream with nothing in flight
V1Init ==
    /\ v1_pc = "idle"
    /\ v1_event = 0
    /\ v1_calls = 0
    /\ v1_to_agent = <<>>
    /\ v1_to_client = <<>>
    /\ v1_last = V1NoReturn

\* send_event up to the end of send_raw: the size check, then the length
\* prefix and the request written to the stream. The event is named by the
\* ordinal of the call that writes it.
V1SendEvent ==
    /\ v1_pc = "idle"
    /\ v1_calls < MaxV1Calls
    /\ \E size \in RequestSizes :
        LET event == v1_calls + 1 IN
        /\ v1_calls' = event
        /\ IF size > MAX_MESSAGE_SIZE
           THEN /\ v1_last' = [result |-> "MessageTooLarge", event |-> event, reply |-> 0]
                /\ UNCHANGED <<v1_pc, v1_event, v1_to_agent>>
           ELSE /\ v1_to_agent' = Append(v1_to_agent, event)
                /\ v1_pc' = "waiting"
                /\ v1_event' = event
                /\ UNCHANGED v1_last
    /\ UNCHANGED v1_to_client
    /\ UNCHANGED <<cbVars, storeVars, udsVars, drainVars, clVars, poolVars, codecVars, headerVars, accessorVars, fpeVars, engineVars, cbxVars, serverVars, bufferVars>>

\* receive_raw and the rest of send_event: the next length-prefixed message
\* of the stream is read, parsed, and returned when its version matches.
V1Receive ==
    /\ v1_pc = "waiting"
    /\ v1_to_client # <<>>
    /\ LET response == Head(v1_to_client) IN
        /\ v1_to_client' = Tail(v1_to_client)
        /\ v1_last' = [result |-> IF response.version # PROTOCOL_VERSION
                                  THEN "VersionMismatch" ELSE "Ok",
                       event |-> v1_event,
                       reply |-> response.event]
    /\ v1_pc' = "idle"
    /\ v1_event' = 0
    /\ UNCHANGED <<v1_calls, v1_to_agent>>
    /\ UNCHANGED <<cbVars, storeVars, udsVars, drainVars, clVars, poolVars, codecVars, headerVars, accessorVars, fpeVars, engineVars, cbxVars, serverVars, bufferVars>>

\* tokio::time::timeout elapses while receive_raw waits for the length
\* prefix: the future is dropped and send_event returns Timeout; the stream
\* is kept.
V1Timeout ==
    /\ v1_pc = "waiting"
    /\ v1_last' = [result |-> "Timeout", event |-> v1_event, reply |-> 0]
    /\ v1_pc' = "idle"
    /\ v1_event' = 0
    /\ UNCHANGED <<v1_calls, v1_to_agent, v1_to_client>>
    /\ UNCHANGED <<cbVars, storeVars, udsVars, drainVars, clVars, poolVars, codecVars, headerVars, accessorVars, fpeVars, engineVars, cbxVars, serverVars, bufferVars>>

\* the agent at the other end of the stream: it reads the next event and
\* writes its reply to it
V1AgentReply ==
    /\ v1_to_agent # <<>>
    /\ \E version \in ReplyVersions :
        v1_to_client' = Append(v1_to_client,
                               [event |-> Head(v1_to_agent), version |-> version])
    /\ v1_to_agent' = Tail(v1_to_agent)
    /\ UNCHANGED <<v1_pc, v1_event, v1_calls, v1_last>>
    /\ UNCHANGED <<cbVars, storeVars, udsVars, drainVars, clVars, poolVars, codecVars, headerVars, accessorVars, fpeVars, engineVars, cbxVars, serverVars, bufferVars>>

V1Next ==
    \/ V1SendEvent
    \/ V1Receive
    \/ V1Timeout
    \/ V1AgentReply

\* C36: every response returned by send_event of the v1 client is the
\* agent's reply to the event written by that same call, also when an
\* earlier send_event on the same connection ended with Timeout and the
\* agent's reply to it arrived afterwards.
C36_ReplyMatchesEvent ==
    v1_last.result = "Ok" => v1_last.reply = v1_last.event

\* ------------------------------------------------------------------------
\* v2 gRPC agent server (crates/agent-protocol/src/v2/server.rs)
\* ------------------------------------------------------------------------
MaxMessages == 4

\* the event messages of proxy_to_agent::Message, lines 220-286
EventKinds ==
    {"RequestHeaders", "RequestBodyChunk", "ResponseHeaders",
     "ResponseBodyChunk", "RequestComplete", "WebsocketFrame"}
\* the messages answered with nothing, lines 297-316
SilentKinds == {"Cancel", "Configure", "Guardrail", "None"}

SvNoMessage == [kind |-> "none", dispatched |-> FALSE, after_success |-> FALSE]

\* process_stream, lines 189-197: the channel is made, the task spawned
ServerInit ==
    /\ sv_pc = "running"
    /\ sv_handshake_done = FALSE
    /\ sv_rx_open = TRUE
    /\ sv_count = 0
    /\ sv_succeeded = FALSE
    /\ sv_last = SvNoMessage

\* lines 319-324: the response is sent, the loop is left when the receiver
\* is gone
send_response == IF sv_rx_open THEN "running" ELSE "ended"

\* one turn of the loop on a Handshake message, lines 209-219: the handler
\* answers with success or not, handshake_done takes the answer
ServerHandshake ==
    /\ sv_pc = "running"
    /\ sv_count < MaxMessages
    /\ \E success \in BOOLEAN :
        /\ sv_handshake_done' = success
        /\ sv_succeeded' = (sv_succeeded \/ success)
    /\ sv_last' = [kind |-> "Handshake", dispatched |-> TRUE,
                   after_success |-> sv_succeeded]
    /\ sv_pc' = send_response
    /\ sv_count' = sv_count + 1
    /\ UNCHANGED sv_rx_open
    /\ UNCHANGED <<cbVars, storeVars, udsVars, drainVars, clVars, poolVars, codecVars, headerVars, accessorVars, fpeVars, engineVars, cbxVars, v1Vars, bufferVars>>

\* one turn of the loop on an event message, lines 220-286: skipped
\* without handshake_done, else given to the handler and answered
ServerEvent ==
    /\ sv_pc = "running"
    /\ sv_count < MaxMessages
    /\ \E kind \in EventKinds :
        sv_last' = [kind |-> kind, dispatched |-> sv_handshake_done,
                    after_success |-> sv_succeeded]
    /\ sv_pc' = IF sv_handshake_done THEN send_response ELSE "running"
    /\ sv_count' = sv_count + 1
    /\ UNCHANGED <<sv_handshake_done, sv_rx_open, sv_succeeded>>
    /\ UNCHANGED <<cbVars, storeVars, udsVars, drainVars, clVars, poolVars, codecVars, headerVars, accessorVars, fpeVars, engineVars, cbxVars, v1Vars, bufferVars>>

\* one turn of the loop on a Ping, lines 287-296: answered with a Pong
ServerPing ==
    /\ sv_pc = "running"
    /\ sv_count < MaxMessages
    /\ sv_last' = [kind |-> "Ping", dispatched |-> FALSE,
                   after_success |-> sv_succeeded]
    /\ sv_pc' = send_response
    /\ sv_count' = sv_count + 1
    /\ UNCHANGED <<sv_handshake_done, sv_rx_open, sv_succeeded>>
    /\ UNCHANGED <<cbVars, storeVars, udsVars, drainVars, clVars, poolVars, codecVars, headerVars, accessorVars, fpeVars, engineVars, cbxVars, v1Vars, bufferVars>>

\* one turn of the loop on Cancel, Configure, Guardrail or an empty
\* message, lines 297-316: nothing is sent
ServerSilent ==
    /\ sv_pc = "running"
    /\ sv_count < MaxMessages
    /\ \E kind \in SilentKinds :
        sv_last' = [kind |-> kind, dispatched |-> FALSE,
                    after_success |-> sv_succeeded]
    /\ sv_count' = sv_count + 1
    /\ UNCHANGED <<sv_pc, sv_handshake_done, sv_rx_open, sv_succeeded>>
    /\ UNCHANGED <<cbVars, storeVars, udsVars, drainVars, clVars, poolVars, codecVars, headerVars, accessorVars, fpeVars, engineVars, cbxVars, v1Vars, bufferVars>>

\* lines 199-206 and 327: the stream ends or yields an error; the loop is
\* left and on_stream_closed called
ServerStreamEnd ==
    /\ sv_pc = "running"
    /\ sv_pc' = "ended"
    /\ UNCHANGED <<sv_handshake_done, sv_rx_open, sv_count, sv_succeeded, sv_last>>
    /\ UNCHANGED <<cbVars, storeVars, udsVars, drainVars, clVars, poolVars, codecVars, headerVars, accessorVars, fpeVars, engineVars, cbxVars, v1Vars, bufferVars>>

\* the caller drops the response stream (the ReceiverStream of line 331)
ReceiverDrop ==
    /\ sv_rx_open
    /\ sv_rx_open' = FALSE
    /\ UNCHANGED <<sv_pc, sv_handshake_done, sv_count, sv_succeeded, sv_last>>
    /\ UNCHANGED <<cbVars, storeVars, udsVars, drainVars, clVars, poolVars, codecVars, headerVars, accessorVars, fpeVars, engineVars, cbxVars, v1Vars, bufferVars>>

ServerNext ==
    \/ ServerHandshake
    \/ ServerEvent
    \/ ServerPing
    \/ ServerSilent
    \/ ServerStreamEnd
    \/ ReceiverDrop

\* C39: an event frame is dispatched to the handler if and only if a
\* handshake has succeeded on the stream before it: no event is handled
\* before the first successful handshake, and after one no later handshake
\* message makes the server stop handling events.
C39_EventsIffHandshake ==
    sv_last.kind \in EventKinds => (sv_last.dispatched <=> sv_last.after_success)

\* ------------------------------------------------------------------------
\* Thread-local buffer pool (crates/agent-protocol/src/buffer_pool.rs)
\* ------------------------------------------------------------------------
DEFAULT_BUFFER_SIZE == 65536
MAX_POOL_SIZE == 16
MAX_POOLED_BUFFER_SIZE == 262144
MaxGets == 4

\* the holders of a PooledBuffer on the thread
Holders == {"h1", "h2"}
\* the minimum capacities asked for: nothing, small, the default, above the
\* default, above the largest pooled size
MinCapacities == {0, 1024, DEFAULT_BUFFER_SIZE, 100000, 300000}

NoBuffer == [capacity |-> 0 - 1, len |-> 0]
BpNoCall == [min_capacity |-> 0 - 1, capacity |-> 0, len |-> 0, source |-> "none"]

\* BufferPool::new, and no PooledBuffer alive
BufferInit ==
    /\ bp_buffers = <<>>
    /\ bp_stats = [allocated |-> 0, reused |-> 0, dropped |-> 0]
    /\ bp_held = [h \in Holders |-> NoBuffer]
    /\ bp_last = BpNoCall

max_of(a, b) == IF a >= b THEN a ELSE b

\* BytesMut::clear: the length is 0, the capacity kept
buf_clear(buf) == [buf EXCEPT !.len = 0]

\* BytesMut::reserve(additional): nothing happens when the spare capacity
\* already holds `additional` more bytes; else the buffer grows to hold
\* len + additional, exactly or by doubling. The capacities it can have
\* afterwards.
buf_reserve(buf, additional) ==
    IF buf.capacity - buf.len >= additional
    THEN {buf.capacity}
    ELSE {buf.len + additional,
          max_of(2 * buf.capacity, buf.len + additional)}

\* the index of the first buffer with capacity >= min_capacity, 0 if none
position_sufficient(buffers, min_capacity) ==
    LET fit == {i \in 1..Len(buffers) : buffers[i].capacity >= min_capacity}
    IN  IF fit = {} THEN 0 ELSE CHOOSE i \in fit : \A j \in fit : i <= j

\* VecDeque::remove(idx)
remove_at(buffers, idx) ==
    [i \in 1..(Len(buffers) - 1) |-> IF i < idx THEN buffers[i] ELSE buffers[i + 1]]

\* BufferPool::get: the results it can have, each with the pool after it
pool_get(buffers, pstats, min_capacity) ==
    LET idx == position_sufficient(buffers, min_capacity) IN
    IF idx # 0
    THEN {[buf |-> buf_clear(buffers[idx]),
           buffers |-> remove_at(buffers, idx),
           pstats |-> [pstats EXCEPT !.reused = @ + 1],
           source |-> "fit"]}
    ELSE IF buffers # <<>>
    THEN LET buf == buf_clear(Head(buffers))
             caps == IF min_capacity > buf.capacity
                     THEN buf_reserve(buf, min_capacity - buf.capacity)
                     ELSE {buf.capacity}
         IN  {[buf |-> [buf EXCEPT !.capacity = c],
               buffers |-> Tail(buffers),
               pstats |-> [pstats EXCEPT !.reused = @ + 1],
               source |-> "front"] : c \in caps}
    ELSE {[buf |-> [capacity |-> max_of(min_capacity, DEFAULT_BUFFER_SIZE), len |-> 0],
           buffers |-> buffers,
           pstats |-> [pstats EXCEPT !.allocated = @ + 1],
           source |-> "allocated"]}

\* BufferPool::put: the pool and the statistics after it
pool_put(buffers, pstats, buf) ==
    IF buf.capacity > MAX_POOLED_BUFFER_SIZE \/ Len(buffers) >= MAX_POOL_SIZE
    THEN [buffers |-> buffers, pstats |-> [pstats EXCEPT !.dropped = @ + 1]]
    ELSE [buffers |-> Append(buffers, buf), pstats |-> pstats]

\* PooledBuffer::new(min_capacity)
BufNew ==
    \E h \in Holders, min_capacity \in MinCapacities :
        /\ bp_held[h] = NoBuffer
        /\ bp_stats.allocated + bp_stats.reused < MaxGets
        /\ \E got \in pool_get(bp_buffers, bp_stats, min_capacity) :
            /\ bp_buffers' = got.buffers
            /\ bp_stats' = got.pstats
            /\ bp_held' = [bp_held EXCEPT ![h] = got.buf]
            /\ bp_last' = [min_capacity |-> min_capacity,
                           capacity |-> got.buf.capacity,
                           len |-> got.buf.len,
                           source |-> got.source]
        /\ UNCHANGED <<cbVars, storeVars, udsVars, drainVars, clVars, poolVars, codecVars, headerVars, accessorVars, fpeVars, engineVars, cbxVars, v1Vars, serverVars>>

\* the holder writes into its buffer through DerefMut, within its capacity
BufWrite ==
    \E h \in Holders :
        /\ bp_held[h] # NoBuffer
        /\ bp_held[h].len = 0
        /\ bp_held[h].capacity > 0
        /\ bp_held' = [bp_held EXCEPT ![h].len = bp_held[h].capacity]
        /\ UNCHANGED <<bp_buffers, bp_stats, bp_last>>
        /\ UNCHANGED <<cbVars, storeVars, udsVars, drainVars, clVars, poolVars, codecVars, headerVars, accessorVars, fpeVars, engineVars, cbxVars, v1Vars, serverVars>>

\* Drop for PooledBuffer: the buffer goes back through BufferPool::put
BufDrop ==
    \E h \in Holders :
        /\ bp_held[h] # NoBuffer
        /\ LET after == pool_put(bp_buffers, bp_stats, bp_held[h]) IN
            /\ bp_buffers' = after.buffers
            /\ bp_stats' = after.pstats
        /\ bp_held' = [bp_held EXCEPT ![h] = NoBuffer]
        /\ UNCHANGED bp_last
        /\ UNCHANGED <<cbVars, storeVars, udsVars, drainVars, clVars, poolVars, codecVars, headerVars, accessorVars, fpeVars, engineVars, cbxVars, v1Vars, serverVars>>

\* PooledBuffer::take: the buffer leaves the wrapper and never returns
BufTake ==
    \E h \in Holders :
        /\ bp_held[h] # NoBuffer
        /\ bp_held' = [bp_held EXCEPT ![h] = NoBuffer]
        /\ UNCHANGED <<bp_buffers, bp_stats, bp_last>>
        /\ UNCHANGED <<cbVars, storeVars, udsVars, drainVars, clVars, poolVars, codecVars, headerVars, accessorVars, fpeVars, engineVars, cbxVars, v1Vars, serverVars>>

BufferNext ==
    \/ BufNew
    \/ BufWrite
    \/ BufDrop
    \/ BufTake

\* C40: acquiring a pooled buffer with minimum capacity n returns an empty
\* buffer whose capacity is at least n, whatever the thread's pool holds
\* (nothing, only smaller buffers, or larger buffers).
C40_CapacityAtLeast ==
    bp_last.source # "none" =>
        /\ bp_last.len = 0
        /\ bp_last.capacity >= bp_last.min_capacity

\* ------------------------------------------------------------------------
\* Specifications: one per component, the other components at rest
\* ------------------------------------------------------------------------
CbRest ==
    /\ cb_config = [failure_threshold |-> 1, success_threshold |-> 1,
                    timeout_seconds |-> 0, half_open_max_requests |-> 1]
    /\ cb = CircuitBreakerNew
    /\ cb_now = 0
    /\ cb_hist = CbHistInit

StoreRest == StoreInit

DrainRest == DrainInit /\ max_drain_time = 1

ClRest == ClInit /\ cl_callback = TRUE

PoolRest == PoolInit /\ pl_config.load_balance_strategy = "RoundRobin"

CodecRest == CodecInit

HeaderRest == HeaderInit /\ hd_owned = TRUE

AccessorRest == AccessorInit /\ ac_doc = JsonNull

FpeRest == FpeInit /\ fp_key = 0

EngineRest == EngineInit /\ en_cfg.action = "Fpe" /\ ~en_cfg.ssn /\ ~en_cfg.phone

CbxRest ==
    /\ CbxInit
    /\ xb_cfg.failure_threshold = 1
    /\ xb_cfg.success_threshold = 1

V1Rest == V1Init

ServerRest == ServerInit

BufferRest == BufferInit

InitCB ==
    CbInit /\ StoreRest /\ UdsInit /\ DrainRest /\ ClRest /\ PoolRest /\ CodecRest /\ HeaderRest /\ AccessorRest /\ FpeRest /\ EngineRest /\ CbxRest /\ V1Rest /\ ServerRest /\ BufferRest
SpecCB == InitCB /\ [][CbNext]_vars

InitStore ==
    CbRest /\ StoreInit /\ UdsInit /\ DrainRest /\ ClRest /\ PoolRest /\ CodecRest /\ HeaderRest /\ AccessorRest /\ FpeRest /\ EngineRest /\ CbxRest /\ V1Rest /\ ServerRest /\ BufferRest
SpecStore == InitStore /\ [][StoreNext]_vars

InitStoreCap ==
    /\ CbRest /\ UdsInit /\ DrainRest /\ ClRest /\ PoolRest /\ CodecRest /\ HeaderRest /\ AccessorRest /\ FpeRest /\ EngineRest /\ CbxRest
    /\ by_correlation = [c \in Corr |-> {}]
    /\ by_token = [t \in Tokens |-> NoEntry]
    /\ entry_count = 0
    /\ max_entries \in 1..MaxEntries
    /\ ttl = 1
    /\ store_now = 0
    /\ next_token = 1
    /\ st_pc = [p \in StoreProcs |-> "idle"]
    /\ st_loc = [p \in StoreProcs |-> NoLoc]
    /\ st_ret = [p \in StoreProcs |-> NoRet]
    /\ minted = [t \in Tokens |-> None] /\ V1Rest /\ ServerRest /\ BufferRest
SpecStoreCap == InitStoreCap /\ [][StoreNext]_vars

SpecStoreTtl == InitStore /\ [][StoreNext \/ StoreTick]_vars

InitUds ==
    CbRest /\ StoreRest /\ UdsInit /\ DrainRest /\ ClRest /\ PoolRest /\ CodecRest /\ HeaderRest /\ AccessorRest /\ FpeRest /\ EngineRest /\ CbxRest /\ V1Rest /\ ServerRest /\ BufferRest
SpecUds == InitUds /\ [][UdsNext]_vars

InitDrain ==
    CbRest /\ StoreRest /\ UdsInit /\ DrainInit /\ ClRest /\ PoolRest /\ CodecRest /\ HeaderRest /\ AccessorRest /\ FpeRest /\ EngineRest /\ CbxRest /\ V1Rest /\ ServerRest /\ BufferRest
SpecDrain == InitDrain /\ [][DrainNext]_vars

InitClient ==
    /\ CbRest /\ StoreRest /\ UdsInit /\ DrainRest /\ ClInit /\ PoolRest
    /\ CodecRest /\ HeaderRest /\ AccessorRest /\ FpeRest /\ EngineRest /\ CbxRest /\ V1Rest /\ ServerRest /\ BufferRest
SpecClient == InitClient /\ [][ClNext]_vars

InitPool ==
    /\ CbRest /\ StoreRest /\ UdsInit /\ DrainRest /\ ClRest /\ PoolInit
    /\ CodecRest /\ HeaderRest /\ AccessorRest /\ FpeRest /\ EngineRest /\ CbxRest
    /\ pl_config.load_balance_strategy = "RoundRobin" /\ V1Rest /\ ServerRest /\ BufferRest
SpecPool == InitPool /\ [][PoolNext]_vars

InitPoolLc ==
    /\ CbRest /\ StoreRest /\ UdsInit /\ DrainRest /\ ClRest /\ PoolInit
    /\ CodecRest /\ HeaderRest /\ AccessorRest /\ FpeRest /\ EngineRest /\ CbxRest
    /\ pl_config.load_balance_strategy = "LeastConnections" /\ V1Rest /\ ServerRest /\ BufferRest
SpecPoolLc == InitPoolLc /\ [][PoolNext]_vars

InitCodec ==
    /\ CbRest /\ StoreRest /\ UdsInit /\ DrainRest /\ ClRest /\ PoolRest
    /\ CodecInit /\ HeaderRest /\ AccessorRest /\ FpeRest /\ EngineRest /\ CbxRest /\ V1Rest /\ ServerRest /\ BufferRest
SpecCodec == InitCodec /\ [][CodecNext]_vars

InitHeaders ==
    /\ CbRest /\ StoreRest /\ UdsInit /\ DrainRest /\ ClRest /\ PoolRest
    /\ CodecRest /\ HeaderInit /\ AccessorRest /\ FpeRest /\ EngineRest /\ CbxRest /\ V1Rest /\ ServerRest /\ BufferRest
SpecHeaders == InitHeaders /\ [][HeaderNext]_vars

InitAccessor ==
    /\ CbRest /\ StoreRest /\ UdsInit /\ DrainRest /\ ClRest /\ PoolRest
    /\ CodecRest /\ HeaderRest /\ AccessorInit /\ FpeRest /\ EngineRest /\ CbxRest /\ V1Rest /\ ServerRest /\ BufferRest
SpecAccessor == InitAccessor /\ [][AccessorNext]_vars

InitFpe ==
    /\ CbRest /\ StoreRest /\ UdsInit /\ DrainRest /\ ClRest /\ PoolRest
    /\ CodecRest /\ HeaderRest /\ AccessorRest /\ FpeInit /\ EngineRest /\ CbxRest /\ V1Rest /\ ServerRest /\ BufferRest
SpecFpe == InitFpe /\ [][FpeNext]_vars

InitEngine ==
    /\ CbRest /\ StoreRest /\ UdsInit /\ DrainRest /\ ClRest /\ PoolRest
    /\ CodecRest /\ HeaderRest /\ AccessorRest /\ FpeRest /\ EngineInit /\ CbxRest /\ V1Rest /\ ServerRest /\ BufferRest
SpecEngine == InitEngine /\ [][EngineNext]_vars

InitCbx ==
    /\ CbRest /\ StoreRest /\ UdsInit /\ DrainRest /\ ClRest /\ PoolRest
    /\ CodecRest /\ HeaderRest /\ AccessorRest /\ FpeRest /\ EngineRest
    /\ CbxInit /\ V1Rest /\ ServerRest /\ BufferRest
SpecCbx == InitCbx /\ [][CbxNext]_vars

InitV1 ==
    /\ CbRest /\ StoreRest /\ UdsInit /\ DrainRest /\ ClRest /\ PoolRest
    /\ CodecRest /\ HeaderRest /\ AccessorRest /\ FpeRest /\ EngineRest /\ CbxRest
    /\ V1Init /\ ServerRest /\ BufferRest
SpecV1 == InitV1 /\ [][V1Next]_vars

SpecPoolMaint == InitPool /\ [][PoolMaintNext]_vars /\ PoolMaintFair

InitServer ==
    /\ CbRest /\ StoreRest /\ UdsInit /\ DrainRest /\ ClRest /\ PoolRest
    /\ CodecRest /\ HeaderRest /\ AccessorRest /\ FpeRest /\ EngineRest /\ CbxRest
    /\ V1Rest /\ ServerInit /\ BufferRest
SpecServer == InitServer /\ [][ServerNext]_vars

InitBuffer ==
    /\ CbRest /\ StoreRest /\ UdsInit /\ DrainRest /\ ClRest /\ PoolRest
    /\ CodecRest /\ HeaderRest /\ AccessorRest /\ FpeRest /\ EngineRest /\ CbxRest
    /\ V1Rest /\ ServerRest /\ BufferInit
SpecBuffer == InitBuffer /\ [][BufferNext]_vars

====
